---- MODULE Spec2Model ----
(***************************************************************************)
(* The orchestration core of WiFi-MLO-Reliability: the two test runners    *)
(* testing_script.py (MLOSimulationRunner) and testing_script_extreme.py   *)
(* (MLOExtremeSimulationRunner).  The two classes have the same            *)
(* generate_test_command, run_single_test and run_all_tests, statement for *)
(* statement; they differ in the scenario catalog and in the first line of *)
(* the log.  The variable runner says which of the two scripts is running. *)
(*                                                                         *)
(* Python strings are TLA+ strings joined with \o, except where the code   *)
(* takes a string apart (the timestamp, split on "_" and parsed by int):   *)
(* there the string is a sequence of one-character strings.                *)
(***************************************************************************)
EXTENDS Integers, Sequences, FiniteSets, TLC

VARIABLES
  runner,           \* "basic" (testing_script.py) or "extreme" (testing_script_extreme.py)
  pc,               \* where the main process is: new, ready, listed, submit, collect, done, raised, exited
  timestamp,        \* self.timestamp, a sequence of characters (<<>> before __init__)
  call,             \* the arguments of the run_all_tests call in progress
  matrix,           \* history: the argument tuples of the generate_test_command calls, in order
  all_tests_to_run, \* the list of (command, test_name, description) built by the loops
  submitted,        \* how many of them executor.submit has accepted
  task,             \* per submitted invocation: the work item and its future
  worker,           \* the number of worker processes of the pool (max_workers)
  broken,           \* the pool is broken (a worker process died abruptly)
  yielded,          \* the futures as_completed has handed to the fold loop
  successful_runs,
  failed_runs,
  files,            \* the log directory: the set of [path, lines] records of the files in it
  archive,          \* history: the earlier run of the script, if any (see Exit)
  exit_status       \* the exit status of the process of the script, once it has ended

vars == <<runner, pc, timestamp, call, matrix, all_tests_to_run, submitted, task, worker,
          broken, yielded, successful_runs, failed_runs, files, archive, exit_status>>

--------------------------------------------------------------------------
(* Bounds of the model.                                                    *)

\* Longest selection list (categories, strategies, protocols) passed to run_all_tests.
MaxSel == 2
\* Largest number of invocations of a run whose matrix expansion is explored.
MaxCells == 60
\* Largest number of invocations of a run whose pool execution is explored.
MaxTasks == 2
\* cpu_count() of the machine: the pool size when max_workers is not given.
MaxWorkers == 2
\* Largest number of invocations of a run that meet a fault of the operating system
\* (the process cannot be started, the log cannot be opened or written).
MaxFaults == 1
\* The runner objects are constructed at one of the seconds FirstSecond .. FirstSecond + MaxTick
\* of a day of January 2026, on one of the days 1 .. 1 + MaxDay.
MaxTick == 2
MaxDay == 1
\* 09:59:59, in seconds since midnight.
FirstSecond == 35999

--------------------------------------------------------------------------
(* Python values.                                                          *)

\* An optional argument: <<>> is None, <<v>> is the value v.
NoneArg == << >>
Some(v) == <<v>>

\* A default that is taken for None only, as `default if x is None else x`.
OrDefaultNoneOnly(x, default) == IF x # NoneArg THEN x[1] ELSE default

\* `x or default` for an optional list: None and the empty list are both falsy.
OrDefault(x, default) == IF x # NoneArg /\ Len(x[1]) > 0 THEN x[1] ELSE default

Digit == <<"0", "1", "2", "3", "4", "5", "6", "7", "8", "9">>

\* str(n) of a non-negative int: its decimal digits, no leading zero.
RECURSIVE str(_)
str(n) == IF n < 10 THEN Digit[n + 1] ELSE str(n \div 10) \o Digit[(n % 10) + 1]

\* "%0wd" % n as a sequence of characters.
RECURSIVE Padded(_, _)
Padded(n, w) == IF w = 0 THEN << >> ELSE Append(Padded(n \div 10, w - 1), Digit[(n % 10) + 1])

\* "".join(chars)
RECURSIVE join(_)
join(chars) == IF chars = << >> THEN "" ELSE chars[1] \o join(Tail(chars))

\* s.split(sep) of a sequence of characters: the pieces between the separators.
RECURSIVE split(_, _)
split(s, sep) ==
  IF \A i \in 1..Len(s) : s[i] # sep THEN <<s>>
  ELSE LET i == CHOOSE j \in 1..Len(s) : s[j] = sep /\ \A k \in 1..(j - 1) : s[k] # sep
       IN  <<SubSeq(s, 1, i - 1)>> \o split(SubSeq(s, i + 1, Len(s)), sep)

DigitValue(c) == CHOOSE d \in 0..9 : Digit[d + 1] = c

\* int(s) of a sequence of decimal digits (leading zeros allowed, as in Python).
RECURSIVE int(_)
int(s) == IF s = << >> THEN 0 ELSE 10 * int(SubSeq(s, 1, Len(s) - 1)) + DigitValue(s[Len(s)])

\* datetime.now().strftime("%Y%m%d_%H%M%S"), now given in seconds since
\* 2026-01-01 00:00:00 local time, within January 2026.
strftime(now) ==
  LET day == 1 + (now \div 86400)
      sec == now % 86400
  IN  Padded(2026, 4) \o Padded(1, 2) \o Padded(day, 2) \o <<"_">>
        \o Padded(sec \div 3600, 2) \o Padded((sec % 3600) \div 60, 2) \o Padded(sec % 60, 2)

\* The scenario catalog of testing_script.py (define_test_scenarios): the dict, in insertion
\* order, as a sequence of categories; every string is the literal of the source.
BasicScenarios ==
  <<
   [category |-> "baseline",
    description |-> "Basic performance under normal conditions",
    tests |-> <<
      [name |-> "normal_load_critical_high",
       params |-> "--nWifi=20 --tidCount=24 --criticalTids=0 --emergencyTids=24 --simtime=30 --dataRate=100Mbps",
       description |-> "Normal load - Emergency TIDs with Ultra-Critical SLA (1ms threshold)"],
      [name |-> "normal_load_critical_basic",
       params |-> "--nWifi=20 --tidCount=24 --criticalTids=24 --emergencyTids=0 --simtime=30 --dataRate=100Mbps",
       description |-> "Normal load - Critical Basic SLA (All Critical TIDs)"],
      [name |-> "normal_load_non_critical",
       params |-> "--nWifi=20 --tidCount=24 --criticalTids=0 --emergencyTids=0 --simtime=30 --dataRate=100Mbps",
       description |-> "Normal load - Non Critical SLA (All Non-Critical TIDs)"],
      [name |-> "normal_load_mixed_tid",
       params |-> "--nWifi=20 --tidCount=24 --criticalTids=8 --emergencyTids=8 --simtime=30 --dataRate=100Mbps",
       description |-> "Normal load - Mixed TID (Emergency + Critical + Non-Critical)"],
      [name |-> "high_load_critical_high",
       params |-> "--nWifi=30 --tidCount=36 --criticalTids=0 --emergencyTids=36 --simtime=30 --dataRate=150Mbps",
       description |-> "High load - Emergency TIDs with Ultra-Critical SLA (1ms threshold)"],
      [name |-> "high_load_critical_basic",
       params |-> "--nWifi=30 --tidCount=36 --criticalTids=36 --emergencyTids=0 --simtime=30 --dataRate=150Mbps",
       description |-> "High load - Critical Basic SLA (All Critical TIDs)"],
      [name |-> "high_load_non_critical",
       params |-> "--nWifi=30 --tidCount=36 --criticalTids=0 --emergencyTids=0 --simtime=30 --dataRate=150Mbps",
       description |-> "High load - Non Critical SLA (All Non-Critical TIDs)"],
      [name |-> "high_load_mixed_tid",
       params |-> "--nWifi=30 --tidCount=36 --criticalTids=12 --emergencyTids=12 --simtime=30 --dataRate=150Mbps",
       description |-> "High load - Mixed TID (Emergency + Critical + Non-Critical)"],
      [name |-> "mixed_traffic_critical_high",
       params |-> "--nWifi=25 --tidCount=32 --criticalTids=0 --emergencyTids=32 --simtime=30 --dataRate=120Mbps",
       description |-> "Mixed traffic - Emergency TIDs with Ultra-Critical SLA (1ms threshold)"],
      [name |-> "mixed_traffic_critical_basic",
       params |-> "--nWifi=25 --tidCount=32 --criticalTids=32 --emergencyTids=0 --simtime=30 --dataRate=120Mbps",
       description |-> "Mixed traffic - Critical Basic SLA (All Critical TIDs)"],
      [name |-> "mixed_traffic_non_critical",
       params |-> "--nWifi=25 --tidCount=32 --criticalTids=0 --emergencyTids=0 --simtime=30 --dataRate=120Mbps",
       description |-> "Mixed traffic - Non Critical SLA (All Non-Critical TIDs)"],
      [name |-> "mixed_traffic_mixed_tid",
       params |-> "--nWifi=25 --tidCount=32 --criticalTids=11 --emergencyTids=11 --simtime=30 --dataRate=120Mbps",
       description |-> "Mixed traffic - Mixed TID (Emergency + Critical + Non-Critical)"]
    >>],
   [category |-> "interference",
    description |-> "Performance under different interference patterns",
    tests |-> <<
      [name |-> "low_interference_critical_high",
       params |-> "--nWifi=20 --tidCount=24 --criticalTids=0 --emergencyTids=24 --simtime=30 --interference=true --interferenceIntensity=0.3",
       description |-> "Low interference - Emergency TIDs with Ultra-Critical SLA (1ms threshold)"],
      [name |-> "low_interference_critical_basic",
       params |-> "--nWifi=20 --tidCount=24 --criticalTids=24 --emergencyTids=0 --simtime=30 --interference=true --interferenceIntensity=0.3",
       description |-> "Low interference - Critical Basic SLA (All Critical TIDs)"],
      [name |-> "low_interference_non_critical",
       params |-> "--nWifi=20 --tidCount=24 --criticalTids=0 --emergencyTids=0 --simtime=30 --interference=true --interferenceIntensity=0.3",
       description |-> "Low interference - Non Critical SLA (All Non-Critical TIDs)"],
      [name |-> "low_interference_mixed_tid",
       params |-> "--nWifi=20 --tidCount=24 --criticalTids=8 --emergencyTids=8 --simtime=30 --interference=true --interferenceIntensity=0.3",
       description |-> "Low interference - Mixed TID (Emergency + Critical + Non-Critical)"],
      [name |-> "medium_interference_critical_high",
       params |-> "--nWifi=20 --tidCount=24 --criticalTids=0 --emergencyTids=24 --simtime=30 --interference=true --interferenceIntensity=0.6",
       description |-> "Medium interference - Emergency TIDs with Ultra-Critical SLA (1ms threshold)"],
      [name |-> "medium_interference_critical_basic",
       params |-> "--nWifi=20 --tidCount=24 --criticalTids=24 --emergencyTids=0 --simtime=30 --interference=true --interferenceIntensity=0.6",
       description |-> "Medium interference - Critical Basic SLA (All Critical TIDs)"],
      [name |-> "medium_interference_non_critical",
       params |-> "--nWifi=20 --tidCount=24 --criticalTids=0 --emergencyTids=0 --simtime=30 --interference=true --interferenceIntensity=0.6",
       description |-> "Medium interference - Non Critical SLA (All Non-Critical TIDs)"],
      [name |-> "medium_interference_mixed_tid",
       params |-> "--nWifi=20 --tidCount=24 --criticalTids=8 --emergencyTids=8 --simtime=30 --interference=true --interferenceIntensity=0.6",
       description |-> "Medium interference - Mixed TID (Emergency + Critical + Non-Critical)"]
    >>],
   [category |-> "failure_recovery",
    description |-> "Basic link failure and recovery performance",
    tests |-> <<
      [name |-> "random_failures_mixed_tid",
       params |-> "--nWifi=20 --tidCount=24 --criticalTids=8 --emergencyTids=8 --simtime=40 --linkFailureRate=0.1 --enableFailureRecovery=true",
       description |-> "Random failures (10% chance per second) - Mixed TID"]
    >>],
   [category |-> "mobility",
    description |-> "Performance under mobility conditions",
    tests |-> <<
      [name |-> "static_nodes_critical_high",
       params |-> "--nWifi=20 --tidCount=24 --criticalTids=0 --emergencyTids=24 --simtime=30 --mobility=false",
       description |-> "Static topology - Critical High SLA (All Emergency TIDs)"],
      [name |-> "static_nodes_critical_basic",
       params |-> "--nWifi=20 --tidCount=24 --criticalTids=24 --emergencyTids=0 --simtime=30 --mobility=false",
       description |-> "Static topology - Critical Basic SLA (All Critical TIDs)"],
      [name |-> "static_nodes_non_critical",
       params |-> "--nWifi=20 --tidCount=24 --criticalTids=0 --emergencyTids=0 --simtime=30 --mobility=false",
       description |-> "Static topology - Non Critical SLA (All Non-Critical TIDs)"],
      [name |-> "static_nodes_mixed_tid",
       params |-> "--nWifi=20 --tidCount=24 --criticalTids=8 --emergencyTids=8 --simtime=30 --mobility=false",
       description |-> "Static topology - Mixed TID (Emergency + Critical + Non-Critical)"],
      [name |-> "low_mobility_critical_high",
       params |-> "--nWifi=20 --tidCount=24 --criticalTids=0 --emergencyTids=24 --simtime=35 --mobility=true --mobilitySpeed=2.0",
       description |-> "Low mobility - Critical High SLA (All Emergency TIDs)"],
      [name |-> "low_mobility_critical_basic",
       params |-> "--nWifi=20 --tidCount=24 --criticalTids=24 --emergencyTids=0 --simtime=35 --mobility=true --mobilitySpeed=2.0",
       description |-> "Low mobility - Critical Basic SLA (All Critical TIDs)"],
      [name |-> "low_mobility_non_critical",
       params |-> "--nWifi=20 --tidCount=24 --criticalTids=0 --emergencyTids=0 --simtime=35 --mobility=true --mobilitySpeed=2.0",
       description |-> "Low mobility - Non Critical SLA (All Non-Critical TIDs)"],
      [name |-> "low_mobility_mixed_tid",
       params |-> "--nWifi=20 --tidCount=24 --criticalTids=8 --emergencyTids=8 --simtime=35 --mobility=true --mobilitySpeed=2.0",
       description |-> "Low mobility - Mixed TID (Emergency + Critical + Non-Critical)"],
      [name |-> "medium_mobility_critical_high",
       params |-> "--nWifi=20 --tidCount=24 --criticalTids=0 --emergencyTids=24 --simtime=35 --mobility=true --mobilitySpeed=5.0",
       description |-> "Medium mobility - Critical High SLA (All Emergency TIDs)"],
      [name |-> "medium_mobility_critical_basic",
       params |-> "--nWifi=20 --tidCount=24 --criticalTids=24 --emergencyTids=0 --simtime=35 --mobility=true --mobilitySpeed=5.0",
       description |-> "Medium mobility - Critical Basic SLA (All Critical TIDs)"],
      [name |-> "medium_mobility_non_critical",
       params |-> "--nWifi=20 --tidCount=24 --criticalTids=0 --emergencyTids=0 --simtime=35 --mobility=true --mobilitySpeed=5.0",
       description |-> "Medium mobility - Non Critical SLA (All Non-Critical TIDs)"],
      [name |-> "medium_mobility_mixed_tid",
       params |-> "--nWifi=20 --tidCount=24 --criticalTids=8 --emergencyTids=8 --simtime=35 --mobility=true --mobilitySpeed=5.0",
       description |-> "Medium mobility - Mixed TID (Emergency + Critical + Non-Critical)"]
    >>],
   [category |-> "scalability",
    description |-> "Scalability performance tests with node progression: 10, 20, 25, 30, 40, 50, 60",
    tests |-> <<
      [name |-> "10_nodes_mixed_tid",
       params |-> "--nWifi=10 --tidCount=12 --criticalTids=4 --emergencyTids=4 --simtime=25 --dataRate=50Mbps",
       description |-> "10 nodes - Mixed TID (Emergency + Critical + Non-Critical)"],
      [name |-> "20_nodes_critical_high",
       params |-> "--nWifi=20 --tidCount=24 --criticalTids=0 --emergencyTids=24 --simtime=30 --dataRate=75Mbps",
       description |-> "20 nodes - Critical High SLA (All Emergency TIDs)"],
      [name |-> "20_nodes_mixed_tid",
       params |-> "--nWifi=20 --tidCount=24 --criticalTids=8 --emergencyTids=8 --simtime=30 --dataRate=75Mbps",
       description |-> "20 nodes - Mixed TID (Emergency + Critical + Non-Critical)"],
      [name |-> "25_nodes_critical_basic",
       params |-> "--nWifi=25 --tidCount=30 --criticalTids=30 --emergencyTids=0 --simtime=30 --dataRate=90Mbps",
       description |-> "25 nodes - Critical Basic SLA (All Critical TIDs)"],
      [name |-> "25_nodes_mixed_tid",
       params |-> "--nWifi=25 --tidCount=30 --criticalTids=10 --emergencyTids=10 --simtime=30 --dataRate=90Mbps",
       description |-> "25 nodes - Mixed TID (Emergency + Critical + Non-Critical)"],
      [name |-> "30_nodes_critical_high",
       params |-> "--nWifi=30 --tidCount=36 --criticalTids=0 --emergencyTids=36 --simtime=30 --dataRate=100Mbps",
       description |-> "30 nodes - Critical High SLA (All Emergency TIDs)"],
      [name |-> "30_nodes_mixed_tid",
       params |-> "--nWifi=30 --tidCount=36 --criticalTids=12 --emergencyTids=12 --simtime=30 --dataRate=100Mbps",
       description |-> "30 nodes - Mixed TID (Emergency + Critical + Non-Critical)"],
      [name |-> "40_nodes_critical_basic",
       params |-> "--nWifi=40 --tidCount=48 --criticalTids=48 --emergencyTids=0 --simtime=35 --dataRate=120Mbps",
       description |-> "40 nodes - Critical Basic SLA (All Critical TIDs)"],
      [name |-> "40_nodes_mixed_tid",
       params |-> "--nWifi=40 --tidCount=48 --criticalTids=16 --emergencyTids=16 --simtime=35 --dataRate=120Mbps",
       description |-> "40 nodes - Mixed TID (Emergency + Critical + Non-Critical)"],
      [name |-> "50_nodes_critical_high",
       params |-> "--nWifi=50 --tidCount=60 --criticalTids=0 --emergencyTids=60 --simtime=35 --dataRate=150Mbps",
       description |-> "50 nodes - Critical High SLA (All Emergency TIDs)"],
      [name |-> "50_nodes_mixed_tid",
       params |-> "--nWifi=50 --tidCount=60 --criticalTids=20 --emergencyTids=20 --simtime=35 --dataRate=150Mbps",
       description |-> "50 nodes - Mixed TID (Emergency + Critical + Non-Critical)"],
      [name |-> "60_nodes_critical_basic",
       params |-> "--nWifi=60 --tidCount=72 --criticalTids=72 --emergencyTids=0 --simtime=40 --dataRate=180Mbps",
       description |-> "60 nodes - Critical Basic SLA (All Critical TIDs)"],
      [name |-> "60_nodes_mixed_tid",
       params |-> "--nWifi=60 --tidCount=72 --criticalTids=24 --emergencyTids=24 --simtime=40 --dataRate=180Mbps",
       description |-> "60 nodes - Mixed TID (Emergency + Critical + Non-Critical)"]
    >>],
   [category |-> "critical_performance",
    description |-> "Critical traffic handling capabilities",
    tests |-> <<
      [name |-> "low_critical_ratio_critical_high",
       params |-> "--nWifi=30 --tidCount=40 --criticalTids=0 --emergencyTids=8 --simtime=30 --dataRate=120Mbps",
       description |-> "Low critical ratio - Critical High SLA (20% Emergency TIDs)"],
      [name |-> "low_critical_ratio_critical_basic",
       params |-> "--nWifi=30 --tidCount=40 --criticalTids=8 --emergencyTids=0 --simtime=30 --dataRate=120Mbps",
       description |-> "Low critical ratio - Critical Basic SLA (20% Critical TIDs)"],
      [name |-> "low_critical_ratio_non_critical",
       params |-> "--nWifi=30 --tidCount=40 --criticalTids=0 --emergencyTids=0 --simtime=30 --dataRate=120Mbps",
       description |-> "Low critical ratio - Non Critical SLA (All Non-Critical TIDs)"],
      [name |-> "low_critical_ratio_mixed_tid",
       params |-> "--nWifi=30 --tidCount=40 --criticalTids=4 --emergencyTids=4 --simtime=30 --dataRate=120Mbps",
       description |-> "Low critical ratio - Mixed TID (Emergency + Critical + Non-Critical)"],
      [name |-> "medium_critical_ratio_critical_high",
       params |-> "--nWifi=30 --tidCount=40 --criticalTids=0 --emergencyTids=16 --simtime=30 --dataRate=120Mbps",
       description |-> "Medium critical ratio - Critical High SLA (40% Emergency TIDs)"],
      [name |-> "medium_critical_ratio_critical_basic",
       params |-> "--nWifi=30 --tidCount=40 --criticalTids=16 --emergencyTids=0 --simtime=30 --dataRate=120Mbps",
       description |-> "Medium critical ratio - Critical Basic SLA (40% Critical TIDs)"],
      [name |-> "medium_critical_ratio_non_critical",
       params |-> "--nWifi=30 --tidCount=40 --criticalTids=0 --emergencyTids=0 --simtime=30 --dataRate=120Mbps",
       description |-> "Medium critical ratio - Non Critical SLA (All Non-Critical TIDs)"],
      [name |-> "medium_critical_ratio_mixed_tid",
       params |-> "--nWifi=30 --tidCount=40 --criticalTids=8 --emergencyTids=8 --simtime=30 --dataRate=120Mbps",
       description |-> "Medium critical ratio - Mixed TID (Emergency + Critical + Non-Critical)"]
    >>],
   [category |-> "network_configuration",
    description |-> "Basic network configuration parameter testing",
    tests |-> <<
      [name |-> "basic_ul_ofdma_mixed_tid",
       params |-> "--nWifi=20 --tidCount=24 --criticalTids=8 --emergencyTids=8 --simtime=30 --enableUlOfdma=true",
       description |-> "Basic UL OFDMA - Mixed TID"],
      [name |-> "bsrp_enabled_mixed_tid",
       params |-> "--nWifi=25 --tidCount=30 --criticalTids=10 --emergencyTids=10 --simtime=30 --enableBsrp=true --enableUlOfdma=true",
       description |-> "BSRP enabled with UL OFDMA - Mixed TID (Buffer status reporting)"],
      [name |-> "medium_congestion_mixed_protocol",
       params |-> "--nWifi=25 --tidCount=30 --criticalTids=10 --emergencyTids=10 --simtime=30 --congestionLevel=medium --dataRate=100Mbps",
       description |-> "Medium congestion level - Mixed TID (Moderate network stress)"]
    >>],
   [category |-> "protocol_variations",
    description |-> "Basic protocol configuration testing",
    tests |-> <<
      [name |-> "tcp_basic_segments_mixed",
       params |-> "--nWifi=20 --tidCount=24 --criticalTids=8 --emergencyTids=8 --simtime=30 --tcpSegmentSize=1500 --dataRate=100Mbps",
       description |-> "TCP standard segments - Mixed TID (1.5KB segments)"],
      [name |-> "mixed_protocol_basic_mobility",
       params |-> "--nWifi=20 --tidCount=24 --criticalTids=8 --emergencyTids=8 --simtime=35 --mobility=true --mobilitySpeed=3.0",
       description |-> "Mixed protocol with basic mobility - Mixed TID (UDP/TCP alternating)"],
      [name |-> "mixed_protocol_basic_interference",
       params |-> "--nWifi=20 --tidCount=24 --criticalTids=8 --emergencyTids=8 --simtime=30 --interference=true --interferenceIntensity=0.4",
       description |-> "Mixed protocol with basic interference - Mixed TID"]
    >>]
  >>

\* The scenario catalog of testing_script_extreme.py (define_test_scenarios): the dict, in insertion
\* order, as a sequence of categories; every string is the literal of the source.
ExtremeScenarios ==
  <<
   [category |-> "baseline",
    description |-> "Basic performance under normal conditions",
    tests |-> <<
      [name |-> "normal_load_critical_high",
       params |-> "--nWifi=20 --tidCount=24 --criticalTids=0 --emergencyTids=24 --simtime=30 --dataRate=100Mbps",
       description |-> "Normal load - Critical High SLA (All Emergency TIDs)"],
      [name |-> "normal_load_critical_basic",
       params |-> "--nWifi=20 --tidCount=24 --criticalTids=24 --emergencyTids=0 --simtime=30 --dataRate=100Mbps",
       description |-> "Normal load - Critical Basic SLA (All Critical TIDs)"],
      [name |-> "normal_load_non_critical",
       params |-> "--nWifi=20 --tidCount=24 --criticalTids=0 --emergencyTids=0 --simtime=30 --dataRate=100Mbps",
       description |-> "Normal load - Non Critical SLA (All Non-Critical TIDs)"],
      [name |-> "normal_load_mixed_tid",
       params |-> "--nWifi=20 --tidCount=24 --criticalTids=8 --emergencyTids=8 --simtime=30 --dataRate=100Mbps",
       description |-> "Normal load - Mixed TID (Emergency + Critical + Non-Critical)"],
      [name |-> "high_load_critical_high",
       params |-> "--nWifi=30 --tidCount=36 --criticalTids=0 --emergencyTids=36 --simtime=30 --dataRate=150Mbps",
       description |-> "High load - Critical High SLA (All Emergency TIDs)"],
      [name |-> "high_load_critical_basic",
       params |-> "--nWifi=30 --tidCount=36 --criticalTids=36 --emergencyTids=0 --simtime=30 --dataRate=150Mbps",
       description |-> "High load - Critical Basic SLA (All Critical TIDs)"],
      [name |-> "high_load_non_critical",
       params |-> "--nWifi=30 --tidCount=36 --criticalTids=0 --emergencyTids=0 --simtime=30 --dataRate=150Mbps",
       description |-> "High load - Non Critical SLA (All Non-Critical TIDs)"],
      [name |-> "high_load_mixed_tid",
       params |-> "--nWifi=30 --tidCount=36 --criticalTids=12 --emergencyTids=12 --simtime=30 --dataRate=150Mbps",
       description |-> "High load - Mixed TID (Emergency + Critical + Non-Critical)"],
      [name |-> "mixed_traffic_critical_high",
       params |-> "--nWifi=25 --tidCount=32 --criticalTids=0 --emergencyTids=32 --simtime=30 --dataRate=120Mbps",
       description |-> "Mixed traffic - Critical High SLA (All Emergency TIDs)"],
      [name |-> "mixed_traffic_critical_basic",
       params |-> "--nWifi=25 --tidCount=32 --criticalTids=32 --emergencyTids=0 --simtime=30 --dataRate=120Mbps",
       description |-> "Mixed traffic - Critical Basic SLA (All Critical TIDs)"],
      [name |-> "mixed_traffic_non_critical",
       params |-> "--nWifi=25 --tidCount=32 --criticalTids=0 --emergencyTids=0 --simtime=30 --dataRate=120Mbps",
       description |-> "Mixed traffic - Non Critical SLA (All Non-Critical TIDs)"],
      [name |-> "mixed_traffic_mixed_tid",
       params |-> "--nWifi=25 --tidCount=32 --criticalTids=11 --emergencyTids=11 --simtime=30 --dataRate=120Mbps",
       description |-> "Mixed traffic - Mixed TID (Emergency + Critical + Non-Critical)"]
    >>],
   [category |-> "interference",
    description |-> "Performance under different interference patterns",
    tests |-> <<
      [name |-> "low_interference_critical_high",
       params |-> "--nWifi=20 --tidCount=24 --criticalTids=0 --emergencyTids=24 --simtime=30 --interference=true --interferenceIntensity=0.3",
       description |-> "Low interference - Critical High SLA (All Emergency TIDs)"],
      [name |-> "low_interference_critical_basic",
       params |-> "--nWifi=20 --tidCount=24 --criticalTids=24 --emergencyTids=0 --simtime=30 --interference=true --interferenceIntensity=0.3",
       description |-> "Low interference - Critical Basic SLA (All Critical TIDs)"],
      [name |-> "low_interference_non_critical",
       params |-> "--nWifi=20 --tidCount=24 --criticalTids=0 --emergencyTids=0 --simtime=30 --interference=true --interferenceIntensity=0.3",
       description |-> "Low interference - Non Critical SLA (All Non-Critical TIDs)"],
      [name |-> "low_interference_mixed_tid",
       params |-> "--nWifi=20 --tidCount=24 --criticalTids=8 --emergencyTids=8 --simtime=30 --interference=true --interferenceIntensity=0.3",
       description |-> "Low interference - Mixed TID (Emergency + Critical + Non-Critical)"],
      [name |-> "medium_interference_critical_high",
       params |-> "--nWifi=20 --tidCount=24 --criticalTids=0 --emergencyTids=24 --simtime=30 --interference=true --interferenceIntensity=0.6",
       description |-> "Medium interference - Critical High SLA (All Emergency TIDs)"],
      [name |-> "medium_interference_critical_basic",
       params |-> "--nWifi=20 --tidCount=24 --criticalTids=24 --emergencyTids=0 --simtime=30 --interference=true --interferenceIntensity=0.6",
       description |-> "Medium interference - Critical Basic SLA (All Critical TIDs)"],
      [name |-> "medium_interference_non_critical",
       params |-> "--nWifi=20 --tidCount=24 --criticalTids=0 --emergencyTids=0 --simtime=30 --interference=true --interferenceIntensity=0.6",
       description |-> "Medium interference - Non Critical SLA (All Non-Critical TIDs)"],
      [name |-> "medium_interference_mixed_tid",
       params |-> "--nWifi=20 --tidCount=24 --criticalTids=8 --emergencyTids=8 --simtime=30 --interference=true --interferenceIntensity=0.6",
       description |-> "Medium interference - Mixed TID (Emergency + Critical + Non-Critical)"],
      [name |-> "high_interference_critical_high",
       params |-> "--nWifi=20 --tidCount=24 --criticalTids=0 --emergencyTids=24 --simtime=30 --interference=true --interferenceIntensity=0.9",
       description |-> "High interference - Critical High SLA (All Emergency TIDs)"],
      [name |-> "high_interference_critical_basic",
       params |-> "--nWifi=20 --tidCount=24 --criticalTids=24 --emergencyTids=0 --simtime=30 --interference=true --interferenceIntensity=0.9",
       description |-> "High interference - Critical Basic SLA (All Critical TIDs)"],
      [name |-> "high_interference_non_critical",
       params |-> "--nWifi=20 --tidCount=24 --criticalTids=0 --emergencyTids=0 --simtime=30 --interference=true --interferenceIntensity=0.9",
       description |-> "High interference - Non Critical SLA (All Non-Critical TIDs)"],
      [name |-> "high_interference_mixed_tid",
       params |-> "--nWifi=20 --tidCount=24 --criticalTids=8 --emergencyTids=8 --simtime=30 --interference=true --interferenceIntensity=0.9",
       description |-> "High interference - Mixed TID (Emergency + Critical + Non-Critical)"],
      [name |-> "burst_interference_critical_high",
       params |-> "--nWifi=20 --tidCount=24 --criticalTids=0 --emergencyTids=24 --simtime=35 --interferencePattern=burst_2.4ghz --interferenceIntensity=0.8",
       description |-> "Burst interference - Critical High SLA (All Emergency TIDs)"],
      [name |-> "burst_interference_critical_basic",
       params |-> "--nWifi=20 --tidCount=24 --criticalTids=24 --emergencyTids=0 --simtime=35 --interferencePattern=burst_2.4ghz --interferenceIntensity=0.8",
       description |-> "Burst interference - Critical Basic SLA (All Critical TIDs)"],
      [name |-> "burst_interference_non_critical",
       params |-> "--nWifi=20 --tidCount=24 --criticalTids=0 --emergencyTids=0 --simtime=35 --interferencePattern=burst_2.4ghz --interferenceIntensity=0.8",
       description |-> "Burst interference - Non Critical SLA (All Non-Critical TIDs)"],
      [name |-> "burst_interference_mixed_tid",
       params |-> "--nWifi=20 --tidCount=24 --criticalTids=8 --emergencyTids=8 --simtime=35 --interferencePattern=burst_2.4ghz --interferenceIntensity=0.8",
       description |-> "Burst interference - Mixed TID (Emergency + Critical + Non-Critical)"],
      [name |-> "burst_5ghz_interference_critical_high",
       params |-> "--nWifi=20 --tidCount=24 --criticalTids=0 --emergencyTids=24 --simtime=35 --interferencePattern=burst_5ghz --interferenceIntensity=0.7 --burstDuration=2000 --burstInterval=5000",
       description |-> "Burst 5GHz interference - Critical High SLA (2s bursts every 5s)"],
      [name |-> "multiband_burst_interference_mixed",
       params |-> "--nWifi=25 --tidCount=30 --criticalTids=10 --emergencyTids=10 --simtime=40 --interferencePattern=burst_all --interferenceIntensity=0.9 --burstDuration=1500 --burstInterval=4000",
       description |-> "Multi-band burst interference - Mixed TID (All bands affected)"],
      [name |-> "low_freq_interference_critical_basic",
       params |-> "--nWifi=20 --tidCount=24 --criticalTids=24 --emergencyTids=0 --simtime=30 --interference=true --interferenceFrequency=low --interferenceIntensity=0.4",
       description |-> "Low frequency interference - Critical Basic SLA (Sporadic interference)"],
      [name |-> "high_freq_interference_emergency",
       params |-> "--nWifi=15 --tidCount=18 --criticalTids=0 --emergencyTids=18 --simtime=30 --interference=true --interferenceFrequency=high --interferenceIntensity=0.6 --maxInterference=0.9",
       description |-> "High frequency interference - Emergency Focus (Frequent high-intensity interference)"],
      [name |-> "variable_interference_mixed",
       params |-> "--nWifi=20 --tidCount=24 --criticalTids=8 --emergencyTids=8 --simtime=35 --interferencePattern=gradual --interferenceIntensity=0.3 --maxInterference=0.8",
       description |-> "Variable interference intensity - Mixed TID (Gradual intensity changes)"]
    >>],
   [category |-> "failure_recovery",
    description |-> "Link failure and recovery performance",
    tests |-> <<
      [name |-> "random_failures_mixed_tid",
       params |-> "--nWifi=20 --tidCount=24 --criticalTids=8 --emergencyTids=8 --simtime=40 --linkFailureRate=0.1 --enableFailureRecovery=true",
       description |-> "Random failures (10% chance per second) - Mixed TID"],
      [name |-> "burst_failures_emulated_mixed_tid",
       params |-> "--nWifi=20 --tidCount=24 --criticalTids=8 --emergencyTids=8 --simtime=40 --linkFailureRate=0.3 --enableFailureRecovery=true",
       description |-> "Burst failures emulated with high random failure rate (30%) - Mixed TID"],
      [name |-> "periodic_failures_emulated_mixed_tid",
       params |-> "--nWifi=20 --tidCount=24 --criticalTids=8 --emergencyTids=8 --simtime=45 --interferencePattern=burst_all --burstDuration=2000 --burstInterval=10000 --interferenceIntensity=0.95",
       description |-> "Periodic failures emulated via interference bursts (2s burst every 10s) - Mixed TID"],
      [name |-> "long_duration_failures_emergency",
       params |-> "--nWifi=15 --tidCount=18 --criticalTids=0 --emergencyTids=18 --simtime=60 --linkFailureRate=0.1 --failureDuration=5000 --enableFailureRecovery=true",
       description |-> "Long duration failures (5s) - Emergency Focus"]
    >>],
   [category |-> "mobility",
    description |-> "Performance under mobility conditions",
    tests |-> <<
      [name |-> "static_nodes_critical_high",
       params |-> "--nWifi=20 --tidCount=24 --criticalTids=0 --emergencyTids=24 --simtime=30 --mobility=false",
       description |-> "Static topology - Critical High SLA (All Emergency TIDs)"],
      [name |-> "static_nodes_critical_basic",
       params |-> "--nWifi=20 --tidCount=24 --criticalTids=24 --emergencyTids=0 --simtime=30 --mobility=false",
       description |-> "Static topology - Critical Basic SLA (All Critical TIDs)"],
      [name |-> "static_nodes_non_critical",
       params |-> "--nWifi=20 --tidCount=24 --criticalTids=0 --emergencyTids=0 --simtime=30 --mobility=false",
       description |-> "Static topology - Non Critical SLA (All Non-Critical TIDs)"],
      [name |-> "static_nodes_mixed_tid",
       params |-> "--nWifi=20 --tidCount=24 --criticalTids=8 --emergencyTids=8 --simtime=30 --mobility=false",
       description |-> "Static topology - Mixed TID (Emergency + Critical + Non-Critical)"],
      [name |-> "low_mobility_critical_high",
       params |-> "--nWifi=20 --tidCount=24 --criticalTids=0 --emergencyTids=24 --simtime=35 --mobility=true --mobilitySpeed=2.0",
       description |-> "Low mobility - Critical High SLA (All Emergency TIDs)"],
      [name |-> "low_mobility_critical_basic",
       params |-> "--nWifi=20 --tidCount=24 --criticalTids=24 --emergencyTids=0 --simtime=35 --mobility=true --mobilitySpeed=2.0",
       description |-> "Low mobility - Critical Basic SLA (All Critical TIDs)"],
      [name |-> "low_mobility_non_critical",
       params |-> "--nWifi=20 --tidCount=24 --criticalTids=0 --emergencyTids=0 --simtime=35 --mobility=true --mobilitySpeed=2.0",
       description |-> "Low mobility - Non Critical SLA (All Non-Critical TIDs)"],
      [name |-> "low_mobility_mixed_tid",
       params |-> "--nWifi=20 --tidCount=24 --criticalTids=8 --emergencyTids=8 --simtime=35 --mobility=true --mobilitySpeed=2.0",
       description |-> "Low mobility - Mixed TID (Emergency + Critical + Non-Critical)"],
      [name |-> "medium_mobility_critical_high",
       params |-> "--nWifi=20 --tidCount=24 --criticalTids=0 --emergencyTids=24 --simtime=35 --mobility=true --mobilitySpeed=5.0",
       description |-> "Medium mobility - Critical High SLA (All Emergency TIDs)"],
      [name |-> "medium_mobility_critical_basic",
       params |-> "--nWifi=20 --tidCount=24 --criticalTids=24 --emergencyTids=0 --simtime=35 --mobility=true --mobilitySpeed=5.0",
       description |-> "Medium mobility - Critical Basic SLA (All Critical TIDs)"],
      [name |-> "medium_mobility_non_critical",
       params |-> "--nWifi=20 --tidCount=24 --criticalTids=0 --emergencyTids=0 --simtime=35 --mobility=true --mobilitySpeed=5.0",
       description |-> "Medium mobility - Non Critical SLA (All Non-Critical TIDs)"],
      [name |-> "medium_mobility_mixed_tid",
       params |-> "--nWifi=20 --tidCount=24 --criticalTids=8 --emergencyTids=8 --simtime=35 --mobility=true --mobilitySpeed=5.0",
       description |-> "Medium mobility - Mixed TID (Emergency + Critical + Non-Critical)"],
      [name |-> "high_mobility_critical_high",
       params |-> "--nWifi=20 --tidCount=24 --criticalTids=0 --emergencyTids=24 --simtime=35 --mobility=true --mobilitySpeed=10.0",
       description |-> "High mobility - Critical High SLA (All Emergency TIDs)"],
      [name |-> "high_mobility_critical_basic",
       params |-> "--nWifi=20 --tidCount=24 --criticalTids=24 --emergencyTids=0 --simtime=35 --mobility=true --mobilitySpeed=10.0",
       description |-> "High mobility - Critical Basic SLA (All Critical TIDs)"],
      [name |-> "high_mobility_non_critical",
       params |-> "--nWifi=20 --tidCount=24 --criticalTids=0 --emergencyTids=0 --simtime=35 --mobility=true --mobilitySpeed=10.0",
       description |-> "High mobility - Non Critical SLA (All Non-Critical TIDs)"],
      [name |-> "high_mobility_mixed_tid",
       params |-> "--nWifi=20 --tidCount=24 --criticalTids=8 --emergencyTids=8 --simtime=35 --mobility=true --mobilitySpeed=10.0",
       description |-> "High mobility - Mixed TID (Emergency + Critical + Non-Critical)"],
      [name |-> "gradual_mobility_critical_high",
       params |-> "--nWifi=20 --tidCount=24 --criticalTids=0 --emergencyTids=24 --simtime=40 --mobility=true --mobilityPattern=gradual --mobilitySpeed=3.0",
       description |-> "Gradual mobility pattern - Critical High SLA (Predictable movement)"],
      [name |-> "random_mobility_mixed_tid",
       params |-> "--nWifi=25 --tidCount=30 --criticalTids=10 --emergencyTids=10 --simtime=40 --mobility=true --mobilityPattern=random --mobilitySpeed=7.0",
       description |-> "Random mobility pattern - Mixed TID (Unpredictable movement)"],
      [name |-> "very_high_speed_emergency",
       params |-> "--nWifi=15 --tidCount=18 --criticalTids=0 --emergencyTids=18 --simtime=30 --mobility=true --mobilitySpeed=15.0",
       description |-> "Very high speed mobility - Emergency Only (15 m/s speed)"]
    >>],
   [category |-> "scalability",
    description |-> "Scalability performance tests",
    tests |-> <<
      [name |-> "small_network_critical_high",
       params |-> "--nWifi=10 --tidCount=12 --criticalTids=0 --emergencyTids=12 --simtime=25 --dataRate=50Mbps",
       description |-> "Small network - Critical High SLA (All Emergency TIDs)"],
      [name |-> "small_network_critical_basic",
       params |-> "--nWifi=10 --tidCount=12 --criticalTids=12 --emergencyTids=0 --simtime=25 --dataRate=50Mbps",
       description |-> "Small network - Critical Basic SLA (All Critical TIDs)"],
      [name |-> "small_network_non_critical",
       params |-> "--nWifi=10 --tidCount=12 --criticalTids=0 --emergencyTids=0 --simtime=25 --dataRate=50Mbps",
       description |-> "Small network - Non Critical SLA (All Non-Critical TIDs)"],
      [name |-> "small_network_mixed_tid",
       params |-> "--nWifi=10 --tidCount=12 --criticalTids=4 --emergencyTids=4 --simtime=25 --dataRate=50Mbps",
       description |-> "Small network - Mixed TID (Emergency + Critical + Non-Critical)"],
      [name |-> "medium_network_critical_high",
       params |-> "--nWifi=30 --tidCount=36 --criticalTids=0 --emergencyTids=36 --simtime=30 --dataRate=100Mbps",
       description |-> "Medium network - Critical High SLA (All Emergency TIDs)"],
      [name |-> "medium_network_critical_basic",
       params |-> "--nWifi=30 --tidCount=36 --criticalTids=36 --emergencyTids=0 --simtime=30 --dataRate=100Mbps",
       description |-> "Medium network - Critical Basic SLA (All Critical TIDs)"],
      [name |-> "medium_network_non_critical",
       params |-> "--nWifi=30 --tidCount=36 --criticalTids=0 --emergencyTids=0 --simtime=30 --dataRate=100Mbps",
       description |-> "Medium network - Non Critical SLA (All Non-Critical TIDs)"],
      [name |-> "medium_network_mixed_tid",
       params |-> "--nWifi=30 --tidCount=36 --criticalTids=12 --emergencyTids=12 --simtime=30 --dataRate=100Mbps",
       description |-> "Medium network - Mixed TID (Emergency + Critical + Non-Critical)"],
      [name |-> "large_network_critical_high",
       params |-> "--nWifi=50 --tidCount=60 --criticalTids=0 --emergencyTids=60 --simtime=35 --dataRate=150Mbps",
       description |-> "Large network - Critical High SLA (All Emergency TIDs)"],
      [name |-> "large_network_critical_basic",
       params |-> "--nWifi=50 --tidCount=60 --criticalTids=60 --emergencyTids=0 --simtime=35 --dataRate=150Mbps",
       description |-> "Large network - Critical Basic SLA (All Critical TIDs)"],
      [name |-> "large_network_non_critical",
       params |-> "--nWifi=50 --tidCount=60 --criticalTids=0 --emergencyTids=0 --simtime=35 --dataRate=150Mbps",
       description |-> "Large network - Non Critical SLA (All Non-Critical TIDs)"],
      [name |-> "large_network_mixed_tid",
       params |-> "--nWifi=50 --tidCount=60 --criticalTids=20 --emergencyTids=20 --simtime=35 --dataRate=150Mbps",
       description |-> "Large network - Mixed TID (Emergency + Critical + Non-Critical)"],
      [name |-> "very_large_network_critical_high",
       params |-> "--nWifi=80 --tidCount=96 --criticalTids=0 --emergencyTids=96 --simtime=40 --dataRate=200Mbps",
       description |-> "Very large network - Critical High SLA (All Emergency TIDs)"],
      [name |-> "very_large_network_critical_basic",
       params |-> "--nWifi=80 --tidCount=96 --criticalTids=96 --emergencyTids=0 --simtime=40 --dataRate=200Mbps",
       description |-> "Very large network - Critical Basic SLA (All Critical TIDs)"],
      [name |-> "very_large_network_non_critical",
       params |-> "--nWifi=80 --tidCount=96 --criticalTids=0 --emergencyTids=0 --simtime=40 --dataRate=200Mbps",
       description |-> "Very large network - Non Critical SLA (All Non-Critical TIDs)"],
      [name |-> "very_large_network_mixed_tid",
       params |-> "--nWifi=80 --tidCount=96 --criticalTids=32 --emergencyTids=32 --simtime=40 --dataRate=200Mbps",
       description |-> "Very large network - Mixed TID (Emergency + Critical + Non-Critical)"]
    >>],
   [category |-> "critical_performance",
    description |-> "Critical traffic handling capabilities",
    tests |-> <<
      [name |-> "low_critical_ratio_critical_high",
       params |-> "--nWifi=30 --tidCount=40 --criticalTids=0 --emergencyTids=8 --simtime=30 --dataRate=120Mbps",
       description |-> "Low critical ratio - Critical High SLA (20% Emergency TIDs)"],
      [name |-> "low_critical_ratio_critical_basic",
       params |-> "--nWifi=30 --tidCount=40 --criticalTids=8 --emergencyTids=0 --simtime=30 --dataRate=120Mbps",
       description |-> "Low critical ratio - Critical Basic SLA (20% Critical TIDs)"],
      [name |-> "low_critical_ratio_non_critical",
       params |-> "--nWifi=30 --tidCount=40 --criticalTids=0 --emergencyTids=0 --simtime=30 --dataRate=120Mbps",
       description |-> "Low critical ratio - Non Critical SLA (All Non-Critical TIDs)"],
      [name |-> "low_critical_ratio_mixed_tid",
       params |-> "--nWifi=30 --tidCount=40 --criticalTids=4 --emergencyTids=4 --simtime=30 --dataRate=120Mbps",
       description |-> "Low critical ratio - Mixed TID (Emergency + Critical + Non-Critical)"],
      [name |-> "medium_critical_ratio_critical_high",
       params |-> "--nWifi=30 --tidCount=40 --criticalTids=0 --emergencyTids=16 --simtime=30 --dataRate=120Mbps",
       description |-> "Medium critical ratio - Critical High SLA (40% Emergency TIDs)"],
      [name |-> "medium_critical_ratio_critical_basic",
       params |-> "--nWifi=30 --tidCount=40 --criticalTids=16 --emergencyTids=0 --simtime=30 --dataRate=120Mbps",
       description |-> "Medium critical ratio - Critical Basic SLA (40% Critical TIDs)"],
      [name |-> "medium_critical_ratio_non_critical",
       params |-> "--nWifi=30 --tidCount=40 --criticalTids=0 --emergencyTids=0 --simtime=30 --dataRate=120Mbps",
       description |-> "Medium critical ratio - Non Critical SLA (All Non-Critical TIDs)"],
      [name |-> "medium_critical_ratio_mixed_tid",
       params |-> "--nWifi=30 --tidCount=40 --criticalTids=8 --emergencyTids=8 --simtime=30 --dataRate=120Mbps",
       description |-> "Medium critical ratio - Mixed TID (Emergency + Critical + Non-Critical)"],
      [name |-> "high_critical_ratio_critical_high",
       params |-> "--nWifi=30 --tidCount=40 --criticalTids=0 --emergencyTids=28 --simtime=30 --dataRate=120Mbps",
       description |-> "High critical ratio - Critical High SLA (70% Emergency TIDs)"],
      [name |-> "high_critical_ratio_critical_basic",
       params |-> "--nWifi=30 --tidCount=40 --criticalTids=28 --emergencyTids=0 --simtime=30 --dataRate=120Mbps",
       description |-> "High critical ratio - Critical Basic SLA (70% Critical TIDs)"],
      [name |-> "high_critical_ratio_non_critical",
       params |-> "--nWifi=30 --tidCount=40 --criticalTids=0 --emergencyTids=0 --simtime=30 --dataRate=120Mbps",
       description |-> "High critical ratio - Non Critical SLA (All Non-Critical TIDs)"],
      [name |-> "high_critical_ratio_mixed_tid",
       params |-> "--nWifi=30 --tidCount=40 --criticalTids=14 --emergencyTids=14 --simtime=30 --dataRate=120Mbps",
       description |-> "High critical ratio - Mixed TID (Emergency + Critical + Non-Critical)"],
      [name |-> "emergency_with_critical_critical_high",
       params |-> "--nWifi=25 --tidCount=32 --criticalTids=0 --emergencyTids=24 --simtime=35 --dataRate=150Mbps",
       description |-> "Emergency with critical - Critical High SLA (75% Emergency TIDs)"],
      [name |-> "emergency_with_critical_critical_basic",
       params |-> "--nWifi=25 --tidCount=32 --criticalTids=24 --emergencyTids=0 --simtime=35 --dataRate=150Mbps",
       description |-> "Emergency with critical - Critical Basic SLA (75% Critical TIDs)"],
      [name |-> "emergency_with_critical_non_critical",
       params |-> "--nWifi=25 --tidCount=32 --criticalTids=0 --emergencyTids=0 --simtime=35 --dataRate=150Mbps",
       description |-> "Emergency with critical - Non Critical SLA (All Non-Critical TIDs)"],
      [name |-> "emergency_with_critical_mixed_tid",
       params |-> "--nWifi=25 --tidCount=32 --criticalTids=11 --emergencyTids=11 --simtime=35 --dataRate=150Mbps",
       description |-> "Emergency with Critical - Mixed TID (Emergency + Critical + Non-Critical)"]
    >>],
   [category |-> "network_configuration",
    description |-> "Advanced network configuration parameter testing",
    tests |-> <<
      [name |-> "high_mcs_ul_ofdma_critical_high",
       params |-> "--nWifi=20 --tidCount=24 --criticalTids=0 --emergencyTids=24 --simtime=30 --mcs=11 --enableUlOfdma=true --channelWidth=160",
       description |-> "High MCS with UL OFDMA - Critical High SLA (MCS 11, 160MHz channel)"],
      [name |-> "bsrp_enabled_mixed_tid",
       params |-> "--nWifi=25 --tidCount=30 --criticalTids=10 --emergencyTids=10 --simtime=30 --enableBsrp=true --enableUlOfdma=true",
       description |-> "BSRP enabled with UL OFDMA - Mixed TID (Buffer status reporting)"],
      [name |-> "wide_channel_high_congestion_emergency",
       params |-> "--nWifi=30 --tidCount=36 --criticalTids=0 --emergencyTids=36 --simtime=35 --channelWidth=160 --congestionLevel=high --dataRate=200Mbps",
       description |-> "Wide channel with high congestion - Emergency Focus (160MHz under stress)"],
      [name |-> "low_mcs_high_load_critical_basic",
       params |-> "--nWifi=40 --tidCount=48 --criticalTids=48 --emergencyTids=0 --simtime=30 --mcs=2 --dataRate=50Mbps",
       description |-> "Low MCS with high load - Critical Basic SLA (MCS 2 under load)"],
      [name |-> "medium_congestion_mixed_protocol",
       params |-> "--nWifi=25 --tidCount=30 --criticalTids=10 --emergencyTids=10 --simtime=30 --congestionLevel=medium --dataRate=100Mbps",
       description |-> "Medium congestion level - Mixed TID (Moderate network stress)"]
    >>],
   [category |-> "protocol_variations",
    description |-> "Mixed protocol and advanced protocol configuration testing",
    tests |-> <<
      [name |-> "tcp_large_segments_critical_high",
       params |-> "--nWifi=20 --tidCount=24 --criticalTids=0 --emergencyTids=24 --simtime=30 --tcpSegmentSize=2000 --dataRate=100Mbps",
       description |-> "TCP large segments - Critical High SLA (2KB segments)"],
      [name |-> "tcp_small_segments_high_load_mixed",
       params |-> "--nWifi=30 --tidCount=36 --criticalTids=12 --emergencyTids=12 --simtime=30 --tcpSegmentSize=500 --dataRate=150Mbps",
       description |-> "TCP small segments with high load - Mixed TID (500B segments)"],
      [name |-> "mixed_protocol_mobility_emergency",
       params |-> "--nWifi=20 --tidCount=24 --criticalTids=0 --emergencyTids=24 --simtime=35 --mobility=true --mobilitySpeed=5.0",
       description |-> "Mixed protocol with mobility - Emergency Focus (UDP/TCP alternating)"],
      [name |-> "mixed_protocol_interference_critical_basic",
       params |-> "--nWifi=25 --tidCount=30 --criticalTids=30 --emergencyTids=0 --simtime=30 --interference=true --interferenceIntensity=0.5",
       description |-> "Mixed protocol with interference - Critical Basic SLA (Protocol diversity under interference)"]
    >>],
   [category |-> "mobility_interference_extreme",
    description |-> "Extreme scenarios combining mobility and interference stress testing",
    tests |-> <<
      [name |-> "low_mobility_medium_interference_emergency",
       params |-> "--nWifi=20 --tidCount=24 --criticalTids=0 --emergencyTids=24 --simtime=40 --mobility=true --mobilitySpeed=2.0 --interference=true --interferenceIntensity=0.6",
       description |-> "Low mobility + Medium interference - Emergency SLA (2m/s + 60% interference)"],
      [name |-> "low_mobility_high_interference_mixed",
       params |-> "--nWifi=25 --tidCount=30 --criticalTids=10 --emergencyTids=10 --simtime=40 --mobility=true --mobilitySpeed=2.0 --interference=true --interferenceIntensity=0.9",
       description |-> "Low mobility + High interference - Mixed TID (2m/s + 90% interference)"],
      [name |-> "low_mobility_burst_interference_critical",
       params |-> "--nWifi=20 --tidCount=24 --criticalTids=24 --emergencyTids=0 --simtime=45 --mobility=true --mobilitySpeed=2.0 --interferencePattern=burst_2.4ghz --interferenceIntensity=0.8",
       description |-> "Low mobility + Burst interference - Critical Basic (2m/s + 2.4GHz bursts)"],
      [name |-> "medium_mobility_high_interference_emergency",
       params |-> "--nWifi=25 --tidCount=30 --criticalTids=0 --emergencyTids=30 --simtime=40 --mobility=true --mobilitySpeed=5.0 --interference=true --interferenceIntensity=0.9",
       description |-> "Medium mobility + High interference - Emergency SLA (5m/s + 90% interference)"],
      [name |-> "medium_mobility_burst_all_bands_mixed",
       params |-> "--nWifi=30 --tidCount=36 --criticalTids=12 --emergencyTids=12 --simtime=45 --mobility=true --mobilitySpeed=5.0 --interferencePattern=burst_all --interferenceIntensity=0.8 --burstDuration=1500 --burstInterval=4000",
       description |-> "Medium mobility + Multi-band burst interference - Mixed TID (5m/s + all-band bursts)"],
      [name |-> "medium_mobility_variable_interference_critical",
       params |-> "--nWifi=25 --tidCount=30 --criticalTids=30 --emergencyTids=0 --simtime=45 --mobility=true --mobilitySpeed=5.0 --interferencePattern=gradual --interferenceIntensity=0.4 --maxInterference=0.9",
       description |-> "Medium mobility + Variable interference - Critical Basic (5m/s + gradual interference changes)"],
      [name |-> "high_mobility_high_interference_emergency",
       params |-> "--nWifi=25 --tidCount=30 --criticalTids=0 --emergencyTids=30 --simtime=40 --mobility=true --mobilitySpeed=10.0 --interference=true --interferenceIntensity=0.9",
       description |-> "High mobility + High interference - Emergency SLA (10m/s + 90% interference)"],
      [name |-> "high_mobility_burst_5ghz_mixed",
       params |-> "--nWifi=20 --tidCount=24 --criticalTids=8 --emergencyTids=8 --simtime=45 --mobility=true --mobilitySpeed=10.0 --interferencePattern=burst_5ghz --interferenceIntensity=0.8 --burstDuration=2000 --burstInterval=5000",
       description |-> "High mobility + 5GHz burst interference - Mixed TID (10m/s + 5GHz bursts)"],
      [name |-> "high_mobility_high_freq_interference_critical",
       params |-> "--nWifi=20 --tidCount=24 --criticalTids=24 --emergencyTids=0 --simtime=40 --mobility=true --mobilitySpeed=10.0 --interference=true --interferenceFrequency=high --interferenceIntensity=0.7 --maxInterference=0.9",
       description |-> "High mobility + High freq interference - Critical Basic (10m/s + frequent interference)"],
      [name |-> "random_mobility_multiband_burst_emergency",
       params |-> "--nWifi=30 --tidCount=36 --criticalTids=0 --emergencyTids=36 --simtime=50 --mobility=true --mobilityPattern=random --mobilitySpeed=7.0 --interferencePattern=burst_all --interferenceIntensity=0.9 --burstDuration=1000 --burstInterval=3000",
       description |-> "Random mobility + Multi-band bursts - Emergency SLA (7m/s random + all-band interference)"],
      [name |-> "random_mobility_variable_interference_mixed",
       params |-> "--nWifi=25 --tidCount=30 --criticalTids=10 --emergencyTids=10 --simtime=50 --mobility=true --mobilityPattern=random --mobilitySpeed=8.0 --interferencePattern=gradual --interferenceIntensity=0.3 --maxInterference=0.95",
       description |-> "Random mobility + Variable interference - Mixed TID (8m/s random + gradual interference)"],
      [name |-> "very_high_speed_extreme_interference_emergency",
       params |-> "--nWifi=20 --tidCount=24 --criticalTids=0 --emergencyTids=24 --simtime=40 --mobility=true --mobilitySpeed=15.0 --interference=true --interferenceIntensity=0.95",
       description |-> "Very high speed + Extreme interference - Emergency Only (15m/s + 95% interference)"],
      [name |-> "very_high_speed_periodic_failures_mixed",
       params |-> "--nWifi=25 --tidCount=30 --criticalTids=10 --emergencyTids=10 --simtime=50 --mobility=true --mobilitySpeed=15.0 --interferencePattern=burst_all --burstDuration=3000 --burstInterval=8000 --interferenceIntensity=0.98",
       description |-> "Very high speed + Periodic failures - Mixed TID (15m/s + 98% interference bursts)"],
      [name |-> "large_network_mobility_interference_stress",
       params |-> "--nWifi=50 --tidCount=60 --criticalTids=20 --emergencyTids=20 --simtime=45 --mobility=true --mobilitySpeed=8.0 --interference=true --interferenceIntensity=0.8",
       description |-> "Large network mobility + interference stress test (50 nodes, 8m/s + 80% interference)"],
      [name |-> "very_large_network_extreme_mobility_interference",
       params |-> "--nWifi=80 --tidCount=96 --criticalTids=32 --emergencyTids=32 --simtime=50 --mobility=true --mobilityPattern=random --mobilitySpeed=12.0 --interferencePattern=burst_all --interferenceIntensity=0.9 --burstDuration=2000 --burstInterval=5000",
       description |-> "Very large network extreme test (80 nodes, 12m/s random + multi-band bursts)"],
      [name |-> "tcp_mobility_interference_stress",
       params |-> "--nWifi=25 --tidCount=30 --criticalTids=15 --emergencyTids=15 --simtime=45 --mobility=true --mobilitySpeed=8.0 --interference=true --interferenceIntensity=0.8 --tcpSegmentSize=1500",
       description |-> "TCP under mobility + interference stress (8m/s + 80% interference)"],
      [name |-> "mixed_protocol_extreme_mobility_interference",
       params |-> "--nWifi=30 --tidCount=36 --criticalTids=12 --emergencyTids=12 --simtime=50 --mobility=true --mobilityPattern=random --mobilitySpeed=10.0 --interferencePattern=burst_all --interferenceIntensity=0.85",
       description |-> "Mixed protocols under extreme conditions (10m/s random + burst interference)"]
    >>]
  >>

--------------------------------------------------------------------------
(* The runner object.                                                      *)

Runners == {"basic", "extreme"}

\* self.scenarios of the running script.
define_test_scenarios(r) == IF r = "basic" THEN BasicScenarios ELSE ExtremeScenarios

\* self.strategies and self.protocols, the defaults of run_all_tests.
DefaultStrategies == <<"RoundRobin", "Greedy", "Reliability", "SLA-MLO">>
DefaultProtocols == <<"UDP", "TCP", "Mixed">>

\* str(self.output_csv_path) and str(self.log_dir) for ns3_dir = ".", the only value
\* the scripts construct the runner with.
output_csv_path == "scratch/output_files_csv/mlo_unified_results.csv"
log_dir == "scratch/logs"

\* list(self.scenarios.keys())
CategoryNames(scenarios) == [i \in 1..Len(scenarios) |-> scenarios[i].category]

\* category_name in self.scenarios
InScenarios(scenarios, category_name) ==
  \E i \in 1..Len(scenarios) : scenarios[i].category = category_name

\* self.scenarios[category_name]
Category(scenarios, category_name) ==
  scenarios[CHOOSE i \in 1..Len(scenarios) : scenarios[i].category = category_name]

\* The instants at which a runner object may be constructed.
Instants == {d * 86400 + FirstSecond + k : d \in 0..MaxDay, k \in 0..MaxTick}

\* A naming that puts each category into a directory of its own.
TestNameNested(scenario_category, test_config, strategy, protocol, seed) ==
  scenario_category \o "/" \o test_config.name \o "_" \o strategy \o "_" \o protocol
    \o "_" \o str(seed)

\* A naming that leaves the seed out of the name.
TestNameNoSeed(scenario_category, test_config, strategy, protocol, seed) ==
  scenario_category \o "_" \o test_config.name \o "_" \o strategy \o "_" \o protocol

\* The f-string that names a test: category, scenario name, strategy, protocol and seed
\* joined by "_".
TestName(scenario_category, test_config, strategy, protocol, seed) ==
  scenario_category \o "_" \o test_config.name \o "_" \o strategy \o "_" \o protocol
    \o "_" \o str(seed)

\* A command that gives each invocation a result file of its own.
generate_test_command_own_csv(scenario_category, test_config, strategy, protocol, seed) ==
  [command |->
     ("./ns3 run 'mlo_simulator "
        \o "--strategy=" \o strategy \o " "
        \o "--protocol=" \o protocol \o " "
        \o "--seed=")
       \o (str(seed) \o " ")
       \o ("--csvFile=scratch/output_files_csv/mlo_unified_results_")
       \o (str(seed) \o ".csv ")
       \o ("--scenario=" \o scenario_category \o "_" \o test_config.name \o " "
            \o "--runNumber=")
       \o (str(seed) \o " ")
       \o ("--verbose=1 "
            \o test_config.params
            \o "'"),
   test_name |-> TestName(scenario_category, test_config, strategy, protocol, seed),
   description |-> test_config.description]

\* A command whose --runNumber is placed before --scenario.
generate_test_command_reordered(scenario_category, test_config, strategy, protocol, seed) ==
  [command |->
     ("./ns3 run 'mlo_simulator "
        \o "--strategy=" \o strategy \o " "
        \o "--protocol=" \o protocol \o " "
        \o "--seed=")
       \o (str(seed) \o " ")
       \o ("--csvFile=" \o output_csv_path \o " "
            \o "--runNumber=")
       \o (str(seed) \o " ")
       \o ("--scenario=" \o scenario_category \o "_" \o test_config.name \o " "
            \o "--verbose=1 "
            \o test_config.params
            \o "'"),
   test_name |-> TestName(scenario_category, test_config, strategy, protocol, seed),
   description |-> test_config.description]

\* generate_test_command: the tuple (command, test_name, description).  The command is
\* the concatenation of the f-string pieces, test_config['params'] and the closing quote,
\* in the order of the source (the parentheses only group the pieces).
generate_test_command(scenario_category, test_config, strategy, protocol, seed) ==
  [command |->
     ("./ns3 run 'mlo_simulator "
        \o "--strategy=" \o strategy \o " "
        \o "--protocol=" \o protocol \o " "
        \o "--seed=")
       \o (str(seed) \o " ")
       \o ("--csvFile=" \o output_csv_path \o " "
            \o "--scenario=" \o scenario_category \o "_" \o test_config.name \o " "
            \o "--runNumber=")
       \o (str(seed) \o " ")
       \o ("--verbose=1 "
            \o test_config.params
            \o "'"),
   test_name |-> TestName(scenario_category, test_config, strategy, protocol, seed),
   description |-> test_config.description]

\* The path run_single_test writes the log of test_name to.
LogFilePath(test_name, ts) == log_dir \o "/" \o test_name \o "_" \o join(ts) \o ".log"

\* test_id_counter as run_all_tests initialises it: the HHMMSS part of the timestamp as
\* a decimal number.
SeedBase(ts) == int(split(ts, "_")[2])

--------------------------------------------------------------------------
(* run_all_tests, the matrix expansion: the four nested loops.  Each loop  *)
(* operator gives the entries its loop appends to all_tests_to_run when it *)
(* is entered with the given value of test_id_counter, from its k-th       *)
(* iteration on.  The counter is incremented once per entry appended, so   *)
(* after a loop it is the value before plus the number of its entries.     *)

\* The body of the innermost loop: the counter is incremented, then the test is built
\* with the new value as its seed and appended.  cell remembers the arguments.
LoopBody(test_id_counter, category_name, test_config, strategy, protocol) ==
  LET seed == test_id_counter + 1
  IN  [test |-> generate_test_command(category_name, test_config, strategy, protocol, seed),
       cell |-> [category |-> category_name, scenario |-> test_config.name,
                 strategy |-> strategy, protocol |-> protocol, seed |-> seed]]

\* An innermost loop that leaves out the last protocol of the list.
RECURSIVE ProtocolLoopSkipsLast(_, _, _, _, _, _)
ProtocolLoopSkipsLast(test_id_counter, category_name, test_config, strategy, protocols_to_test, k) ==
  IF k >= Len(protocols_to_test) THEN << >>
  ELSE <<LoopBody(test_id_counter, category_name, test_config, strategy,
                  protocols_to_test[k])>>
         \o ProtocolLoopSkipsLast(test_id_counter + 1, category_name, test_config, strategy,
                                  protocols_to_test, k + 1)

\* An innermost loop that increments the counter only on its first iteration.
RECURSIVE ProtocolLoopCounterStuck(_, _, _, _, _, _)
ProtocolLoopCounterStuck(test_id_counter, category_name, test_config, strategy, protocols_to_test, k) ==
  IF k > Len(protocols_to_test) THEN << >>
  ELSE <<LoopBody(test_id_counter, category_name, test_config, strategy,
                  protocols_to_test[k])>>
         \o ProtocolLoopCounterStuck(test_id_counter, category_name, test_config, strategy,
                                     protocols_to_test, k + 1)

\* The innermost loop, over protocols_to_test.
RECURSIVE ProtocolLoop(_, _, _, _, _, _)
ProtocolLoop(test_id_counter, category_name, test_config, strategy, protocols_to_test, k) ==
  IF k > Len(protocols_to_test) THEN << >>
  ELSE <<LoopBody(test_id_counter, category_name, test_config, strategy,
                  protocols_to_test[k])>>
         \o ProtocolLoop(test_id_counter + 1, category_name, test_config, strategy,
                         protocols_to_test, k + 1)

\* A loop over strategies_to_test that takes the list from its end.
RECURSIVE StrategyLoopBackwards(_, _, _, _, _, _)
StrategyLoopBackwards(test_id_counter, category_name, test_config, strategies_to_test, protocols_to_test, k) ==
  IF k > Len(strategies_to_test) THEN << >>
  ELSE LET inner == ProtocolLoop(test_id_counter, category_name, test_config,
                                 strategies_to_test[Len(strategies_to_test) - k + 1],
                                 protocols_to_test, 1)
       IN  inner \o StrategyLoopBackwards(test_id_counter + Len(inner), category_name,
                                          test_config, strategies_to_test,
                                          protocols_to_test, k + 1)

\* The loop over strategies_to_test.
RECURSIVE StrategyLoop(_, _, _, _, _, _)
StrategyLoop(test_id_counter, category_name, test_config, strategies_to_test, protocols_to_test, k) ==
  IF k > Len(strategies_to_test) THEN << >>
  ELSE LET inner == ProtocolLoop(test_id_counter, category_name, test_config,
                                 strategies_to_test[k], protocols_to_test, 1)
       IN  inner \o StrategyLoop(test_id_counter + Len(inner), category_name, test_config,
                                 strategies_to_test, protocols_to_test, k + 1)

\* The loop over the tests of one category.
RECURSIVE TestLoop(_, _, _, _, _, _)
TestLoop(test_id_counter, category_name, tests, strategies_to_test, protocols_to_test, k) ==
  IF k > Len(tests) THEN << >>
  ELSE LET inner == StrategyLoop(test_id_counter, category_name, tests[k],
                                 strategies_to_test, protocols_to_test, 1)
       IN  inner \o TestLoop(test_id_counter + Len(inner), category_name, tests,
                             strategies_to_test, protocols_to_test, k + 1)

\* An outer loop that stops at a category that is not in the catalog.
RECURSIVE CategoryLoopBreaks(_, _, _, _, _, _)
CategoryLoopBreaks(test_id_counter, scenarios, categories_to_run, strategies_to_test, protocols_to_test, k) ==
  IF k > Len(categories_to_run) \/ ~InScenarios(scenarios, categories_to_run[k]) THEN << >>
  ELSE LET inner == TestLoop(test_id_counter, categories_to_run[k],
                             Category(scenarios, categories_to_run[k]).tests,
                             strategies_to_test, protocols_to_test, 1)
       IN  inner \o CategoryLoopBreaks(test_id_counter + Len(inner), scenarios,
                                       categories_to_run, strategies_to_test,
                                       protocols_to_test, k + 1)

\* The outer loop; a category that is not in the catalog is skipped with a warning.
RECURSIVE CategoryLoop(_, _, _, _, _, _)
CategoryLoop(test_id_counter, scenarios, categories_to_run, strategies_to_test, protocols_to_test, k) ==
  IF k > Len(categories_to_run) THEN << >>
  ELSE IF ~InScenarios(scenarios, categories_to_run[k])
       THEN CategoryLoop(test_id_counter, scenarios, categories_to_run, strategies_to_test,
                         protocols_to_test, k + 1)
       ELSE LET inner == TestLoop(test_id_counter, categories_to_run[k],
                                  Category(scenarios, categories_to_run[k]).tests,
                                  strategies_to_test, protocols_to_test, 1)
            IN  inner \o CategoryLoop(test_id_counter + Len(inner), scenarios,
                                      categories_to_run, strategies_to_test,
                                      protocols_to_test, k + 1)

\* The three selections after the defaults are resolved.
categories_to_run(r, c) == OrDefault(c.categories, CategoryNames(define_test_scenarios(r)))
strategies_to_test(c) == OrDefault(c.strategies, DefaultStrategies)
\* A default of the protocols copied from the line of the strategies.
protocols_to_test_copied(c) == OrDefault(c.protocols, DefaultStrategies)
protocols_to_test(c) == OrDefault(c.protocols, DefaultProtocols)

\* An expansion whose seeds start at a base that depends on max_workers.
ExpansionByWorkers(r, ts, c) ==
  LET base == SeedBase(ts) + (IF c.max_workers = NoneArg THEN 0 ELSE c.max_workers[1])
      entries == CategoryLoop(base, define_test_scenarios(r), categories_to_run(r, c),
                              strategies_to_test(c), protocols_to_test(c), 1)
  IN  [all_tests_to_run |-> [i \in 1..Len(entries) |-> entries[i].test],
       matrix |-> [i \in 1..Len(entries) |-> entries[i].cell]]

\* What the loops have built when they end, for runner r, timestamp ts and call c.
Expansion(r, ts, c) ==
  LET entries == CategoryLoop(SeedBase(ts), define_test_scenarios(r), categories_to_run(r, c),
                              strategies_to_test(c), protocols_to_test(c), 1)
  IN  [all_tests_to_run |-> [i \in 1..Len(entries) |-> entries[i].test],
       matrix |-> [i \in 1..Len(entries) |-> entries[i].cell]]

--------------------------------------------------------------------------
(* run_single_test.  What the operating system does to one invocation is   *)
(* the record env:                                                         *)
(*   spawn   "ok", or "fails": subprocess.run raises before the shell runs *)
(*           (the working directory is gone, fork fails)                   *)
(*   exe     "present", or "missing": the command names no executable      *)
(*   rc      the exit status of the simulator when it runs                 *)
(*   write   the open(.., 'w') block: "ok", "open_fails" or "write_fails"  *)
(*   partial when the write fails: how many lines reached the file (the    *)
(*           model explores a failure right after the details block)       *)
(*   append  the open(.., 'a') block of the handler, likewise              *)
(***************************************************************************)

\* Exit statuses of the simulator that the model explores.
ExitCodes == {0, 137}

\* The exit status of /bin/sh -c when the command is not found.
ShellNotFound == 127

IoOutcomes == {"ok", "open_fails", "write_fails"}

\* The number of lines of the TEST DETAILS block, "Return Code" included.
DetailLines == 6

\* A launch without the shell: a missing executable raises FileNotFoundError.
subprocess_run_no_shell(command, env) ==
  IF env.spawn = "fails" \/ env.exe = "missing"
  THEN [raised |-> TRUE, returncode |-> NoneArg, stdout |-> "", stderr |-> "",
        exception |-> "[Errno 2] No such file or directory: './ns3'"]
  ELSE [raised |-> FALSE, returncode |-> Some(env.rc), stdout |-> "simulator output",
        stderr |-> "", exception |-> ""]

\* subprocess.run(command, shell=True, cwd=.., capture_output=True, text=True): the
\* command is handed to the shell, so a missing executable is the shell's exit status
\* 127 with its message on stderr, not an exception.
subprocess_run(command, env) ==
  IF env.spawn = "fails"
  THEN [raised |-> TRUE, returncode |-> NoneArg, stdout |-> "", stderr |-> "",
        exception |-> "[Errno 2] No such file or directory: '.'"]
  ELSE IF env.exe = "missing"
       THEN [raised |-> FALSE, returncode |-> Some(ShellNotFound), stdout |-> "",
             stderr |-> "/bin/sh: 1: ./ns3: not found", exception |-> ""]
       ELSE [raised |-> FALSE, returncode |-> Some(env.rc), stdout |-> "simulator output",
             stderr |-> "", exception |-> ""]

\* The first line of the log, the one statement in which the two scripts differ.
DetailsHeader(r) ==
  IF r = "basic" THEN "--- TEST DETAILS ---" ELSE "--- EXTREME TEST DETAILS ---"

\* A log written with the STDERR section before the STDOUT section.
LogLinesStderrFirst(r, test_info, result) ==
  << DetailsHeader(r),
     "Test Name: " \o test_info.test_name,
     "Description: " \o test_info.description,
     "Timestamp: <isoformat>",
     "Execution Time: <seconds> seconds",
     "Return Code: " \o str(result.returncode[1]),
     "",
     "--- COMMAND ---",
     test_info.command,
     "",
     "--- STDERR ---",
     result.stderr,
     "--- STDOUT ---",
     result.stdout >>

\* The lines the `with open(log_file_path, 'w')` block writes.
LogLines(r, test_info, result) ==
  << DetailsHeader(r),
     "Test Name: " \o test_info.test_name,
     "Description: " \o test_info.description,
     "Timestamp: <isoformat>",
     "Execution Time: <seconds> seconds",
     "Return Code: " \o str(result.returncode[1]),
     "",
     "--- COMMAND ---",
     test_info.command,
     "",
     "--- STDOUT ---",
     result.stdout,
     "--- STDERR ---",
     result.stderr >>

\* The lines the handler appends.
ExceptionLines(text) == << "", "--- PYTHON EXCEPTION ---", text >>

\* The `except Exception as e` block: open the log for appending, write the exception
\* text, return False.  old is the file before (<<>> when there is none).
Handler(old, text, env, returncode) ==
  IF env.append = "open_fails"
  THEN [outcome |-> "raised", file |-> old, returncode |-> returncode]
  ELSE IF env.append = "write_fails"
       THEN [outcome |-> "raised", file |-> Some(IF old = NoneArg THEN << >> ELSE old[1]),
             returncode |-> returncode]
       ELSE [outcome |-> "False",
             file |-> Some((IF old = NoneArg THEN << >> ELSE old[1]) \o ExceptionLines(text)),
             returncode |-> returncode]

\* run_single_test(test_info) under env: its outcome ("True", "False", or "raised" when
\* an exception leaves it), the log file afterwards, and the return code of the process
\* when one ran.  old is the file at log_file_path before the call.
run_single_test(r, test_info, old, env) ==
  LET result == subprocess_run(test_info.command, env)
  IN  IF result.raised
      THEN Handler(old, result.exception, env, NoneArg)
      ELSE IF env.write = "open_fails"
           THEN Handler(old, "[Errno 13] Permission denied", env, result.returncode)
           ELSE IF env.write = "write_fails"
                THEN Handler(Some(SubSeq(LogLines(r, test_info, result), 1, env.partial)),
                             "[Errno 28] No space left on device", env, result.returncode)
                ELSE [outcome |-> IF result.returncode[1] = 0 THEN "True" ELSE "False",
                      file |-> Some(LogLines(r, test_info, result)),
                      returncode |-> result.returncode]

\* The environments, each behaviour of the operating system once: a field the run does
\* not reach has its first value.
NoFault(env) == env.spawn = "ok" /\ env.write = "ok"

Envs ==
  { e \in [spawn : {"ok", "fails"}, exe : {"present", "missing"}, rc : ExitCodes,
           write : IoOutcomes, partial : {0, DetailLines}, append : IoOutcomes] :
      /\ e.spawn = "fails" => e.exe = "present" /\ e.write = "ok"
      /\ e.exe = "missing" \/ e.spawn = "fails" => e.rc = 0
      /\ e.partial = IF e.write = "write_fails" THEN DetailLines ELSE 0
      /\ NoFault(e) => e.append = "ok" }

--------------------------------------------------------------------------
(* The state machine.                                                      *)

NoCall == [categories |-> NoneArg, strategies |-> NoneArg, protocols |-> NoneArg,
           max_workers |-> NoneArg]

Init ==
  /\ runner \in Runners
  /\ pc = "new"
  /\ timestamp = << >>
  /\ call = NoCall
  /\ matrix = << >>
  /\ all_tests_to_run = << >>
  /\ submitted = 0
  /\ task = << >>
  /\ worker = 0
  /\ broken = FALSE
  /\ yielded = {}
  /\ successful_runs = 0
  /\ failed_runs = 0
  /\ files = << >>
  /\ archive = NoneArg
  /\ exit_status = NoneArg

\* MLOSimulationRunner.__init__ at the instant now: the timestamp is taken here, once.
\* (setup_directory_structure creates the two directories; the catalog and the two
\* default lists are the constants above.)
Construct(now) ==
  /\ pc = "new"
  /\ timestamp' = strftime(now)
  /\ pc' = "ready"
  /\ UNCHANGED <<runner, call, matrix, all_tests_to_run, submitted, task, worker, broken,
                 yielded, successful_runs, failed_runs, files, archive, exit_status>>

\* run_all_tests(max_workers, categories, strategies, protocols) up to the pool: the
\* defaults, the expansion, the two counters set to 0 and the pool created with
\* max_workers worker processes (cpu_count of them when the argument is None).
BeginRun(c, cpu_count) ==
  /\ pc = "ready"
  /\ call' = c
  /\ LET st == Expansion(runner, timestamp, c)
     IN  /\ all_tests_to_run' = st.all_tests_to_run
         /\ matrix' = st.matrix
  /\ worker' = IF c.max_workers = NoneArg THEN cpu_count ELSE c.max_workers[1]
  /\ submitted' = 0
  /\ task' = << >>
  /\ broken' = FALSE
  /\ yielded' = {}
  /\ successful_runs' = 0
  /\ failed_runs' = 0
  /\ pc' = "submit"
  /\ UNCHANGED <<runner, timestamp, files, archive, exit_status>>

\* One executor.submit of the dict comprehension: the next test becomes a queued work
\* item with a pending future.  A task is [state, result, started, crashed, env,
\* returncode]: the state of the work item (queued, executing, finished); the result of
\* the future ("none", the value "True" or "False", "raised" for the exception that left
\* run_single_test, "BrokenProcessPool"); and, as history, whether its external command
\* was started, whether the worker process executing it died, the environment it ran
\* to its end under and the return code of its process.  On a broken pool submit raises BrokenProcessPool, which
\* nothing in run_all_tests catches.
Submit ==
  /\ pc = "submit"
  /\ submitted < Len(all_tests_to_run)
  /\ IF broken
     THEN /\ pc' = "raised"
          /\ UNCHANGED <<submitted, task>>
     ELSE /\ submitted' = submitted + 1
          /\ task' = Append(task, [state |-> "queued", result |-> "none",
                                   started |-> FALSE, crashed |-> FALSE,
                                   env |-> NoneArg, returncode |-> NoneArg])
          /\ pc' = pc
  /\ UNCHANGED <<runner, timestamp, call, matrix, all_tests_to_run, worker, broken,
                 yielded, successful_runs, failed_runs, files, archive, exit_status>>

\* Every test is submitted: the main process enters the as_completed loop.
AllSubmitted ==
  /\ pc = "submit"
  /\ submitted = Len(all_tests_to_run)
  /\ pc' = "collect"
  /\ UNCHANGED <<runner, timestamp, call, matrix, all_tests_to_run, submitted, task,
                 worker, broken, yielded, successful_runs, failed_runs, files, archive, exit_status>>

PoolRunning == pc \in {"submit", "collect"} /\ ~broken

\* The invocations a worker process is executing.  The worker processes are
\* interchangeable, so the state holds their number and not which of them has which
\* invocation.
Executing == {i \in 1..submitted : task[i].state = "executing"}

\* A start of the oldest queued work item that does not wait for an idle worker process.
WorkerStartUnbounded(i) ==
  /\ PoolRunning
  /\ i \in 1..submitted
  /\ task[i].state = "queued"
  /\ \A j \in 1..(i - 1) : task[j].state # "queued"
  /\ task' = [task EXCEPT ![i].state = "executing", ![i].started = TRUE]
  /\ UNCHANGED <<runner, pc, timestamp, call, matrix, all_tests_to_run, submitted, worker,
                 broken, yielded, successful_runs, failed_runs, files, archive, exit_status>>

\* An idle worker process takes the oldest queued work item, i, and starts
\* run_single_test: the external command is launched.
WorkerStart(i) ==
  /\ PoolRunning
  /\ Cardinality(Executing) < worker
  /\ i \in 1..submitted
  /\ task[i].state = "queued"
  /\ \A j \in 1..(i - 1) : task[j].state # "queued"
  /\ task' = [task EXCEPT ![i].state = "executing", ![i].started = TRUE]
  /\ UNCHANGED <<runner, pc, timestamp, call, matrix, all_tests_to_run, submitted, worker,
                 broken, yielded, successful_runs, failed_runs, files, archive, exit_status>>

FileAt(path) == IF path \in DOMAIN files THEN Some(files[path]) ELSE NoneArg

\* How many invocations of the run met a fault of the operating system so far.
Faults == Cardinality({i \in 1..submitted : task[i].env # NoneArg /\ ~NoFault(task[i].env[1])})

\* An end of invocation i that reports failure whenever another invocation is executing
\* at the same time.
WorkerFinishContended(i, env, max_faults) ==
  /\ PoolRunning
  /\ i \in Executing
  /\ NoFault(env) \/ Faults < max_faults
  /\ LET path == LogFilePath(all_tests_to_run[i].test_name, timestamp)
         r == run_single_test(runner, all_tests_to_run[i], FileAt(path), env)
     IN  /\ task' = [task EXCEPT ![i].state = "finished",
                                 ![i].result = IF Executing = {i} THEN r.outcome ELSE "False",
                                 ![i].env = Some(env), ![i].returncode = r.returncode]
         /\ files' = IF r.file = NoneArg THEN files
                     ELSE (path :> r.file[1]) @@ files
  /\ UNCHANGED <<runner, pc, timestamp, call, matrix, all_tests_to_run, submitted, worker,
                 broken, yielded, successful_runs, failed_runs, archive, exit_status>>

\* An end of invocation i in which the worker itself adds the outcome to the counters.
WorkerFinishCounts(i, env, max_faults) ==
  /\ PoolRunning
  /\ i \in Executing
  /\ NoFault(env) \/ Faults < max_faults
  /\ LET path == LogFilePath(all_tests_to_run[i].test_name, timestamp)
         r == run_single_test(runner, all_tests_to_run[i], FileAt(path), env)
     IN  /\ task' = [task EXCEPT ![i].state = "finished", ![i].result = r.outcome,
                                 ![i].env = Some(env), ![i].returncode = r.returncode]
         /\ files' = IF r.file = NoneArg THEN files
                     ELSE (path :> r.file[1]) @@ files
         /\ successful_runs' = successful_runs + (IF r.outcome = "True" THEN 1 ELSE 0)
         /\ failed_runs' = failed_runs
  /\ UNCHANGED <<runner, pc, timestamp, call, matrix, all_tests_to_run, submitted, worker,
                 broken, yielded, archive, exit_status>>

\* The external process of invocation i ends (or could not be started) and
\* run_single_test runs to its end under env: the log is written, and the value or the
\* exception goes back to the main process as the result of the future.
WorkerFinish(i, env, max_faults) ==
  /\ PoolRunning
  /\ i \in Executing
  /\ NoFault(env) \/ Faults < max_faults
  /\ LET path == LogFilePath(all_tests_to_run[i].test_name, timestamp)
         r == run_single_test(runner, all_tests_to_run[i], FileAt(path), env)
     IN  /\ task' = [task EXCEPT ![i].state = "finished", ![i].result = r.outcome,
                                 ![i].env = Some(env), ![i].returncode = r.returncode]
         /\ files' = IF r.file = NoneArg THEN files
                     ELSE (path :> r.file[1]) @@ files
  /\ UNCHANGED <<runner, pc, timestamp, call, matrix, all_tests_to_run, submitted, worker,
                 broken, yielded, successful_runs, failed_runs, archive, exit_status>>

\* The worker process that executes invocation i dies abruptly (killed, out of memory).
\* The executor marks the pool broken, fails every future that has no result yet with
\* BrokenProcessPool, and terminates the other worker processes: what they were running
\* writes no log.
WorkerDies(i) ==
  /\ PoolRunning
  /\ i \in Executing
  /\ broken' = TRUE
  /\ task' = [j \in 1..submitted |->
                IF task[j].state = "finished" THEN task[j]
                ELSE [task[j] EXCEPT !.state = "finished", !.result = "BrokenProcessPool",
                                     !.crashed = (j = i)]]
  /\ UNCHANGED <<runner, pc, timestamp, call, matrix, all_tests_to_run, submitted, worker,
                 yielded, successful_runs, failed_runs, files, archive, exit_status>>

\* A fold whose except branch counts nothing.
FoldIgnoresExceptions(i) ==
  /\ pc = "collect"
  /\ i \in 1..submitted
  /\ i \notin yielded
  /\ task[i].state = "finished"
  /\ yielded' = yielded \cup {i}
  /\ successful_runs' = successful_runs + (IF task[i].result = "True" THEN 1 ELSE 0)
  /\ failed_runs' = failed_runs + (IF task[i].result = "False" THEN 1 ELSE 0)
  /\ UNCHANGED <<runner, pc, timestamp, call, matrix, all_tests_to_run, submitted, task,
                 worker, broken, files, archive, exit_status>>

\* A fold that takes the futures in the order of their submission: a finished future
\* waits until every future submitted before it has been folded.
FoldInSubmissionOrder(i) ==
  /\ pc = "collect"
  /\ i \in 1..submitted
  /\ i \notin yielded
  /\ \A j \in 1..(i - 1) : j \in yielded
  /\ task[i].state = "finished"
  /\ yielded' = yielded \cup {i}
  /\ successful_runs' = successful_runs + (IF task[i].result = "True" THEN 1 ELSE 0)
  /\ failed_runs' = failed_runs + (IF task[i].result = "True" THEN 0 ELSE 1)
  /\ UNCHANGED <<runner, pc, timestamp, call, matrix, all_tests_to_run, submitted, task,
                 worker, broken, files, archive, exit_status>>

\* One iteration of `for future in as_completed(future_to_test)`: a finished future not
\* yet handed out is folded into the counters.
Fold(i) ==
  /\ pc = "collect"
  /\ i \in 1..submitted
  /\ i \notin yielded
  /\ task[i].state = "finished"
  /\ yielded' = yielded \cup {i}
  /\ IF task[i].result = "True"
     THEN /\ successful_runs' = successful_runs + 1
          /\ failed_runs' = failed_runs
     ELSE IF task[i].result = "False"
          THEN /\ successful_runs' = successful_runs
               /\ failed_runs' = failed_runs + 1
          ELSE \* future.result() raises: the except branch
               /\ successful_runs' = successful_runs
               /\ failed_runs' = failed_runs + 1
  /\ UNCHANGED <<runner, pc, timestamp, call, matrix, all_tests_to_run, submitted, task,
                 worker, broken, files, archive, exit_status>>

\* as_completed is exhausted: the pool is shut down and the summary is printed.
Complete ==
  /\ pc = "collect"
  /\ yielded = 1..submitted
  /\ pc' = "done"
  /\ UNCHANGED <<runner, timestamp, call, matrix, all_tests_to_run, submitted, task,
                 worker, broken, yielded, successful_runs, failed_runs, files, archive, exit_status>>

\* A listing that expands the matrix of the default selection while it prints.
ListScenariosExpands ==
  /\ pc = "ready"
  /\ pc' = "listed"
  /\ all_tests_to_run' = Expansion(runner, timestamp, NoCall).all_tests_to_run
  /\ matrix' = Expansion(runner, timestamp, NoCall).matrix
  /\ UNCHANGED <<runner, timestamp, call, submitted, task, worker, broken, yielded,
                 successful_runs, failed_runs, files, archive, exit_status>>

\* `if args.list_scenarios:` of the script: the catalog of the runner just constructed
\* is printed and run_all_tests is not called.
ListScenarios ==
  /\ pc = "ready"
  /\ pc' = "listed"
  /\ UNCHANGED <<runner, timestamp, call, matrix, all_tests_to_run, submitted, task,
                 worker, broken, yielded, successful_runs, failed_runs, files, archive,
                 exit_status>>

\* An end of the process that reports failed invocations in the exit status.
ScriptEndsReportsFailures ==
  /\ pc \in {"done", "listed", "raised"}
  /\ exit_status' = Some(IF pc = "raised" \/ failed_runs > 0 THEN 1 ELSE 0)
  /\ pc' = "exited"
  /\ UNCHANGED <<runner, timestamp, call, matrix, all_tests_to_run, submitted, task,
                 worker, broken, yielded, successful_runs, failed_runs, files, archive>>

\* The process of the script ends.  The script has no sys.exit: when its last statement
\* returns (run_all_tests, or the listing) the interpreter exits with status 0, and when
\* an exception leaves run_all_tests it prints the traceback and exits with status 1.
ScriptEnds ==
  /\ pc \in {"done", "listed", "raised"}
  /\ exit_status' = Some(IF pc = "raised" THEN 1 ELSE 0)
  /\ pc' = "exited"
  /\ UNCHANGED <<runner, timestamp, call, matrix, all_tests_to_run, submitted, task,
                 worker, broken, yielded, successful_runs, failed_runs, files, archive>>

\* Later the script is started again, on the same log directory.  archive keeps what the
\* run that ended was called with, what it assigned and how its invocations ended: one
\* earlier run is kept, which is what a statement about two runs needs.
Exit ==
  /\ pc = "exited"
  /\ archive = NoneArg
  /\ archive' = Some([timestamp |-> timestamp,
                      call |-> call,
                      seeds |-> {matrix[i].seed : i \in 1..Len(matrix)},
                      test_names |-> {all_tests_to_run[i].test_name :
                                        i \in 1..Len(all_tests_to_run)},
                      all_tests_to_run |-> all_tests_to_run,
                      task |-> task,
                      successful_runs |-> successful_runs,
                      failed_runs |-> failed_runs])
  /\ pc' = "new"
  /\ timestamp' = << >>
  /\ call' = NoCall
  /\ matrix' = << >>
  /\ all_tests_to_run' = << >>
  /\ submitted' = 0
  /\ task' = << >>
  /\ worker' = 0
  /\ broken' = FALSE
  /\ yielded' = {}
  /\ successful_runs' = 0
  /\ failed_runs' = 0
  /\ exit_status' = NoneArg
  /\ UNCHANGED <<runner, files>>


\* What archive keeps of a call of run_all_tests that has returned, the log directory
\* as the call left it included.
RunRecord ==
  [timestamp |-> timestamp,
   call |-> call,
   seeds |-> {matrix[i].seed : i \in 1..Len(matrix)},
   test_names |-> {all_tests_to_run[i].test_name : i \in 1..Len(all_tests_to_run)},
   all_tests_to_run |-> all_tests_to_run,
   task |-> task,
   successful_runs |-> successful_runs,
   failed_runs |-> failed_runs,
   files |-> files]

\* A second call that takes a new timestamp (one second later) when it starts.
CallAgainRestamped ==
  /\ pc = "done"
  /\ archive = NoneArg
  /\ archive' = Some(RunRecord)
  /\ timestamp' = strftime(FirstSecond + 1)
  /\ pc' = "ready"
  /\ call' = NoCall
  /\ matrix' = << >>
  /\ all_tests_to_run' = << >>
  /\ submitted' = 0
  /\ task' = << >>
  /\ worker' = 0
  /\ broken' = FALSE
  /\ yielded' = {}
  /\ successful_runs' = 0
  /\ failed_runs' = 0
  /\ UNCHANGED <<runner, files, exit_status>>

\* run_all_tests has returned and the program that holds the runner object (a program
\* that imports the class; the script itself calls it once) is about to call it again:
\* the object, with the self.timestamp that __init__ gave it, and the log directory stay
\* as they are.  The locals of the call that returned are gone; archive keeps them.
CallAgain ==
  /\ pc = "done"
  /\ archive = NoneArg
  /\ archive' = Some(RunRecord)
  /\ pc' = "ready"
  /\ call' = NoCall
  /\ matrix' = << >>
  /\ all_tests_to_run' = << >>
  /\ submitted' = 0
  /\ task' = << >>
  /\ worker' = 0
  /\ broken' = FALSE
  /\ yielded' = {}
  /\ successful_runs' = 0
  /\ failed_runs' = 0
  /\ UNCHANGED <<runner, timestamp, files, exit_status>>
--------------------------------------------------------------------------
(* The inputs the specifications draw from.                                *)

\* The sequences over S of length at most n.
SeqsUpTo(S, n) == UNION {[1..k -> S] : k \in 0..n}

\* Names given as categories: two of the catalog and one that is in neither catalog.
CategoryPool == {"baseline", "failure_recovery", "no_such_category"}
StrategyPool == {"RoundRobin", "Greedy"}
ProtocolPool == {"UDP", "TCP"}

OptionalLists(S) == {NoneArg} \cup {Some(s) : s \in SeqsUpTo(S, MaxSel)}

\* The number of scenarios of the categories of a list, a name that is not in the
\* catalog counting for none and a name that is listed twice counting twice.
RECURSIVE ScenarioCount(_, _)
ScenarioCount(scenarios, names) ==
  IF names = << >> THEN 0
  ELSE (IF InScenarios(scenarios, Head(names))
        THEN Len(Category(scenarios, Head(names)).tests) ELSE 0)
       + ScenarioCount(scenarios, Tail(names))

\* The size of the matrix of the call c of runner r: scenarios x strategies x protocols.
MatrixSize(r, c) ==
  ScenarioCount(define_test_scenarios(r), categories_to_run(r, c))
    * Len(strategies_to_test(c)) * Len(protocols_to_test(c))

\* The calls of run_all_tests whose expansion is explored: those of at most MaxCells
\* invocations.
MatrixCalls(r) ==
  { c \in [categories : OptionalLists(CategoryPool), strategies : OptionalLists(StrategyPool),
           protocols : OptionalLists(ProtocolPool), max_workers : {Some(1)}] :
      MatrixSize(r, c) <= MaxCells }

\* The first k protocols of UDP, TCP, Mixed, UDP, ...
ProtocolCycle(k) == [j \in 1..k |-> DefaultProtocols[((j - 1) % 3) + 1]]

\* The calls whose pool execution is explored: those of at most MaxTasks invocations,
\* the call that lists two categories with one worker process only.
PoolCalls(r, ts) ==
  { c \in [categories : {Some(<<"failure_recovery">>), Some(<<"no_such_category">>),
                          Some(<<"no_such_category", "failure_recovery">>)},
           strategies : {Some(<<"SLA-MLO">>)},
           protocols : {Some(ProtocolCycle(k)) : k \in 1..MaxTasks},
           max_workers : {NoneArg, Some(1)}] :
      /\ Len(c.categories[1]) > 1 => c.max_workers = Some(1)
      /\ Len(Expansion(r, ts, c).matrix) <= MaxTasks }

--------------------------------------------------------------------------
(* Spec: one run of a runner, from its construction to the summary.        *)

Next ==
  \/ Construct(FirstSecond)
  \/ /\ pc = "ready"
     /\ \E c \in PoolCalls(runner, timestamp) : BeginRun(c, MaxWorkers)
  \/ Submit
  \/ AllSubmitted
  \/ \E i \in 1..submitted : WorkerStart(i)
  \/ \E i \in 1..submitted, env \in Envs : WorkerFinish(i, env, MaxFaults)
  \/ \E i \in 1..submitted : WorkerDies(i)
  \/ \E i \in 1..submitted : Fold(i)
  \/ Complete
  \/ ListScenarios
  \/ ScriptEnds

Spec == Init /\ [][Next]_vars

(* SpecMatrix: the construction and the matrix expansion, over many calls. *)

NextMatrix ==
  \/ Construct(FirstSecond)
  \/ /\ pc = "ready"
     /\ \E c \in MatrixCalls(runner) : BeginRun(c, 1)

SpecMatrix == Init /\ [][NextMatrix]_vars

(* SpecRuns: the script run twice on one log directory, each run with one  *)
(* worker process and an operating system that does nothing unexpected.    *)

\* The calls of the two runs: those of PoolCalls with one worker process.
RunCalls(r, ts) ==
  {c \in PoolCalls(r, ts) : c.max_workers = Some(1) /\ Len(c.categories[1]) = 1}

\* The environment of an invocation whose simulator runs and exits with status 0.
QuietEnv ==
  [spawn |-> "ok", exe |-> "present", rc |-> 0, write |-> "ok", partial |-> 0,
   append |-> "ok"]

NextRuns ==
  \/ \E now \in Instants : Construct(now)
  \/ /\ pc = "ready"
     /\ \E c \in RunCalls(runner, timestamp) : BeginRun(c, 1)
  \/ Submit
  \/ AllSubmitted
  \/ \E i \in 1..submitted : WorkerStart(i)
  \/ \E i \in 1..submitted : WorkerFinish(i, QuietEnv, 0)
  \/ \E i \in 1..submitted : Fold(i)
  \/ Complete
  \/ ScriptEnds
  \/ Exit

SpecRuns == Init /\ [][NextRuns]_vars

(* SpecDefaults: the expansion of the calls that leave arguments out.      *)

\* The calls in which each of categories, strategies and protocols is either absent or a
\* list of one name.
DefaultCalls ==
  [categories : {NoneArg} \cup {Some(<<n>>) : n \in CategoryPool},
   strategies : {NoneArg} \cup {Some(<<n>>) : n \in StrategyPool},
   protocols : {NoneArg} \cup {Some(<<n>>) : n \in ProtocolPool},
   max_workers : {Some(1)}]

NextDefaults ==
  \/ \E now \in {FirstSecond, FirstSecond + 1} : Construct(now)
  \/ /\ pc = "ready"
     /\ \E c \in DefaultCalls : BeginRun(c, 1)

SpecDefaults == Init /\ [][NextDefaults]_vars

(* SpecPair: the script run twice at the same instant with the same        *)
(* selection, first with one worker process and then with cpu_count of     *)
(* them; every external command runs and exits, and no log write fails.    *)

\* The environments without a fault of the operating system: the simulator exits with
\* one of ExitCodes, or the shell finds no executable.
PlainEnvs == {e \in Envs : NoFault(e)}

NextPair ==
  \/ Construct(FirstSecond)
  \/ /\ pc = "ready"
     /\ \E c \in PoolCalls(runner, timestamp) :
          /\ IF archive = NoneArg THEN c.max_workers = Some(1)
             ELSE c = [archive[1].call EXCEPT !.max_workers = NoneArg]
          /\ BeginRun(c, MaxWorkers)
  \/ Submit
  \/ AllSubmitted
  \/ \E i \in 1..submitted : WorkerStart(i)
  \/ \E i \in 1..submitted, env \in PlainEnvs : WorkerFinish(i, env, 0)
  \/ \E i \in 1..submitted : Fold(i)
  \/ Complete
  \/ ScriptEnds
  \/ Exit

SpecPair == Init /\ [][NextPair]_vars


(* SpecLive: the run of Spec with the scheduling the claims about          *)
(* termination assume.  The main process is never blocked in the submit    *)
(* loop, an idle worker process takes the next work item, the fold loop    *)
(* wakes up on a finished future, and every external process that was      *)
(* started exits (the premise of the claim).  Nothing obliges a worker      *)
(* process to die, and nothing keeps it from dying.                        *)

Fairness ==
  /\ WF_vars(Submit)
  /\ WF_vars(AllSubmitted)
  /\ WF_vars(\E i \in 1..submitted : WorkerStart(i))
  /\ \A i \in 1..(MaxTasks + 1) : WF_vars(\E env \in Envs : WorkerFinish(i, env, MaxFaults))
  /\ WF_vars(\E i \in 1..submitted : Fold(i))
  /\ WF_vars(Complete)
  /\ WF_vars(ScriptEnds)

SpecLive == Init /\ [][Next]_vars /\ Fairness

(* SpecLog: one run of each runner with one worker process, in which the   *)
(* first invocation meets every behaviour of the operating system and the  *)
(* others run and exit with status 0.  The selection is the one category   *)
(* both catalogs have few scenarios of: 1 in the basic catalog, 4 in the   *)
(* extreme one.                                                            *)

LogCall ==
  [categories |-> Some(<<"failure_recovery">>), strategies |-> Some(<<"SLA-MLO">>),
   protocols |-> Some(<<"UDP">>), max_workers |-> Some(1)]

LogEnvs(i) == IF i = 1 THEN Envs ELSE {QuietEnv}

NextLog ==
  \/ Construct(FirstSecond)
  \/ BeginRun(LogCall, 1)
  \/ Submit
  \/ AllSubmitted
  \/ \E i \in 1..submitted : WorkerStart(i)
  \/ \E i \in 1..submitted : \E env \in LogEnvs(i) : WorkerFinish(i, env, MaxFaults)
  \/ \E i \in 1..submitted : Fold(i)
  \/ Complete

SpecLog == Init /\ [][NextLog]_vars

(* SpecAgain: run_all_tests called twice on one runner object, each call    *)
(* with one worker process; every external command runs and exits, and no  *)
(* log write fails.                                                        *)

NextAgain ==
  \/ Construct(FirstSecond)
  \/ /\ pc = "ready"
     /\ \E c \in RunCalls(runner, timestamp) : BeginRun(c, 1)
  \/ Submit
  \/ AllSubmitted
  \/ \E i \in 1..submitted : WorkerStart(i)
  \/ \E i \in 1..submitted, env \in PlainEnvs : WorkerFinish(i, env, 0)
  \/ \E i \in 1..submitted : Fold(i)
  \/ Complete
  \/ CallAgain

SpecAgain == Init /\ [][NextAgain]_vars
--------------------------------------------------------------------------
(* The matrix: claims C1, C8, C10 (SpecMatrix).                            *)

\* run_all_tests is in progress and has built its list of tests.
Expanded == pc \in {"submit", "collect", "done", "raised"}

\* The matrix cell of the i-th test built: category, scenario, strategy and protocol.
CellOf(i) == [category |-> matrix[i].category, scenario |-> matrix[i].scenario,
              strategy |-> matrix[i].strategy, protocol |-> matrix[i].protocol]

\* How often x occurs in the list s.
Multiplicity(s, x) == Cardinality({k \in 1..Len(s) : s[k] = x})

NoRepeat(s) == \A j, k \in 1..Len(s) : s[j] = s[k] => j = k

\* The cells of the selection: the scenarios of the selected categories that the catalog
\* has, with every selected strategy and protocol.
SelectedCells ==
  LET scenarios == define_test_scenarios(runner)
      cats == {c \in {categories_to_run(runner, call)[k] :
                        k \in 1..Len(categories_to_run(runner, call))} :
                 InScenarios(scenarios, c)}
      strats == {strategies_to_test(call)[k] : k \in 1..Len(strategies_to_test(call))}
      prots == {protocols_to_test(call)[k] : k \in 1..Len(protocols_to_test(call))}
  IN  UNION { { [category |-> c, scenario |-> Category(scenarios, c).tests[t].name,
                 strategy |-> s, protocol |-> p] :
                  t \in 1..Len(Category(scenarios, c).tests), s \in strats, p \in prots } :
              c \in cats }

\* C1 as claimed: the list has scenarios x strategies x protocols tests, summed over
\* the selected categories, and holds every cell of the selection exactly once.
C1_ExactlyOnce ==
  Expanded =>
    LET cells == SelectedCells
        built == {CellOf(i) : i \in 1..Len(matrix)}
    IN  /\ Len(all_tests_to_run) = MatrixSize(runner, call)
        /\ built = cells
        /\ Cardinality(built) = Len(matrix)

\* C1 as amended: the list has scenarios x strategies x protocols tests, summed over the
\* entries of the category list that the catalog has (lengths of the lists as passed, a
\* list that is absent or empty replaced by its default), and holds every cell of the
\* selection as often as the product of the numbers of times its category, its strategy
\* and its protocol are listed: exactly once when no list repeats an entry.  No cell of
\* the selection is omitted and no other cell is in the list.
C1_Matrix ==
  Expanded =>
    LET cells == SelectedCells
        built == {CellOf(i) : i \in 1..Len(matrix)}
        cats == categories_to_run(runner, call)
        strats == strategies_to_test(call)
        prots == protocols_to_test(call)
    IN  /\ Len(all_tests_to_run) = MatrixSize(runner, call)
        /\ Len(matrix) = Len(all_tests_to_run)
        /\ built = cells
        /\ \A c \in cells :
             Cardinality({i \in 1..Len(matrix) : CellOf(i) = c})
               = Multiplicity(cats, c.category) * Multiplicity(strats, c.strategy)
                   * Multiplicity(prots, c.protocol)
        /\ (NoRepeat(cats) /\ NoRepeat(strats) /\ NoRepeat(prots))
             => Cardinality(built) = Len(matrix)

\* The example of the claim: baseline with two strategies and two protocols gives 48.
C1_Witness ==
  /\ Expanded
  /\ call.categories = Some(<<"baseline">>)
  /\ call.strategies = Some(<<"RoundRobin", "Greedy">>)
  /\ call.protocols = Some(<<"UDP", "TCP">>)
  /\ Len(all_tests_to_run) = 48

\* Two tests of the run share category, scenario, strategy and protocol.
SharedCell == \E i, j \in 1..Len(matrix) : i # j /\ CellOf(i) = CellOf(j)

\* C8: the seeds of a run go up by one from each test to the next in submission order,
\* so they are strictly increasing and pairwise distinct; the seed is the one the test
\* name and the command carry.
C8_SeedsIncrease ==
  Expanded =>
    /\ \A i \in 1..(Len(matrix) - 1) : matrix[i + 1].seed = matrix[i].seed + 1
    /\ \A i, j \in 1..Len(matrix) : i < j => matrix[i].seed < matrix[j].seed
    /\ \A i \in 1..Len(matrix) :
         all_tests_to_run[i].test_name
           = matrix[i].category \o "_" \o matrix[i].scenario \o "_" \o matrix[i].strategy
               \o "_" \o matrix[i].protocol \o "_" \o str(matrix[i].seed)

C8_Witness == Expanded /\ SharedCell /\ Len(matrix) >= 4

\* C10: no two tests of a run have the same test_name, and so no two have the same log
\* file path.
C10_UniqueNames ==
  Expanded =>
    LET n == Len(all_tests_to_run)
    IN  /\ Cardinality({all_tests_to_run[i].test_name : i \in 1..n}) = n
        /\ Cardinality({LogFilePath(all_tests_to_run[i].test_name, timestamp) : i \in 1..n}) = n

C10_Witness ==
  /\ Expanded
  /\ \E i, j \in 1..Len(matrix) :
       /\ i # j
       /\ CellOf(i) = CellOf(j)
       /\ all_tests_to_run[i].test_name # all_tests_to_run[j].test_name

\* The scenarios of the categories of a list, as [category, scenario] in the order of
\* the list and, within a category, of the catalog; a name the catalog does not have
\* gives none.
RECURSIVE SelectedScenarios(_, _)
SelectedScenarios(scenarios, names) ==
  IF names = << >> THEN << >>
  ELSE (IF InScenarios(scenarios, Head(names))
        THEN [t \in 1..Len(Category(scenarios, Head(names)).tests) |->
                [category |-> Head(names),
                 scenario |-> Category(scenarios, Head(names)).tests[t].name]]
        ELSE << >>)
       \o SelectedScenarios(scenarios, Tail(names))

\* The list built is the nesting of the scenarios sc, the strategies S and the protocols
\* P, the protocols varying fastest.
NestedAs(sc, S, P) ==
  /\ Len(matrix) = Len(sc) * Len(S) * Len(P)
  /\ \A i \in 1..Len(matrix) :
       /\ matrix[i].protocol = P[((i - 1) % Len(P)) + 1]
       /\ matrix[i].strategy = S[(((i - 1) \div Len(P)) % Len(S)) + 1]
       /\ [category |-> matrix[i].category, scenario |-> matrix[i].scenario]
            = sc[((i - 1) \div (Len(S) * Len(P))) + 1]

\* The entries of the list canonical that the list s names, in the order of canonical.
InOrderOf(canonical, s) == SelectSeq(canonical, LAMBDA x : \E k \in 1..Len(s) : s[k] = x)

ParamsOf(i) ==
  LET tests == Category(define_test_scenarios(runner), matrix[i].category).tests
  IN  tests[CHOOSE t \in 1..Len(tests) : tests[t].name = matrix[i].scenario].params

\* The flags of the command of the i-th test built, from --strategy to --verbose.
FlagsOf(i) ==
  ("--strategy=" \o matrix[i].strategy \o " --protocol=" \o matrix[i].protocol)
    \o (" --seed=" \o str(matrix[i].seed))
    \o " --csvFile=scratch/output_files_csv/mlo_unified_results.csv"
    \o (" --scenario=" \o matrix[i].category \o "_" \o matrix[i].scenario)
    \o (" --runNumber=" \o str(matrix[i].seed))
    \o " --verbose=1"

\* C20: the command of every test built is the simulator entry point (./ns3 run with
\* mlo_simulator opening the quoted argument), then the flags --strategy, --protocol,
\* --seed, --csvFile, --scenario, --runNumber and --verbose=1 in this order, then the
\* parameter string of the scenario unchanged (and the closing quote); --scenario is
\* "<category>_<scenario name>", --runNumber has the value of --seed and --csvFile is the
\* one result file.
C20_CommandShape ==
  Expanded =>
    \A i \in 1..Len(matrix) :
      all_tests_to_run[i].command
        = "./ns3 run 'mlo_simulator " \o FlagsOf(i) \o (" " \o ParamsOf(i) \o "'")

\* A run that built commands for two strategies, two protocols and two categories.
C20_Witness ==
  /\ Expanded
  /\ Cardinality({matrix[i].strategy : i \in 1..Len(matrix)}) = 2
  /\ Cardinality({matrix[i].protocol : i \in 1..Len(matrix)}) = 2
  /\ Cardinality({matrix[i].category : i \in 1..Len(matrix)}) = 2
--------------------------------------------------------------------------
(* The defaults: claim C14 (SpecDefaults).                                 *)

\* The names in a list, as a set.
Range(s) == {s[k] : k \in 1..Len(s)}

\* C14: with categories absent every category of the catalog is expanded, with
\* strategies absent the four strategies are used, with protocols absent the three
\* protocols, and an argument that is given is used as given whatever the other two are:
\* the list built has (scenarios of the categories) x (strategies) x (protocols) tests.
C14_Defaults ==
  Expanded =>
    LET scenarios == define_test_scenarios(runner)
        cats == IF call.categories = NoneArg THEN CategoryNames(scenarios)
                ELSE call.categories[1]
        strats == IF call.strategies = NoneArg
                  THEN {"RoundRobin", "Greedy", "Reliability", "SLA-MLO"}
                  ELSE Range(call.strategies[1])
        prots == IF call.protocols = NoneArg THEN {"UDP", "TCP", "Mixed"}
                 ELSE Range(call.protocols[1])
    IN  /\ Len(matrix) = ScenarioCount(scenarios, cats) * Cardinality(strats)
                           * Cardinality(prots)
        /\ {matrix[i].category : i \in 1..Len(matrix)}
             = {n \in Range(cats) : InScenarios(scenarios, n)}
        /\ matrix # << >> =>
             /\ {matrix[i].strategy : i \in 1..Len(matrix)} = strats
             /\ {matrix[i].protocol : i \in 1..Len(matrix)} = prots

\* The call with all three arguments absent, on the basic catalog: 60 x 4 x 3 tests.
C14_Witness ==
  /\ Expanded
  /\ runner = "basic"
  /\ call.categories = NoneArg /\ call.strategies = NoneArg /\ call.protocols = NoneArg
  /\ Len(matrix) = 720


--------------------------------------------------------------------------
(* The run identifier as a file name: claim C24 (SpecDefaults).            *)

\* The characters that separate the components of a path.
PathSeparators == {"/", "\\"}

\* The string s has a path separator among its characters.
HasSeparator(s) == \E k \in 1..Len(s) : SubSeq(s, k, k) \in PathSeparators

\* What follows the log directory and its "/" in a path.
BelowLogDir(path) == SubSeq(path, Len(log_dir) + 2, Len(path))

\* C24: no run identifier of the list built has a path separator in it, and the path of
\* its log is the log directory, one "/" and a file name without a path separator: the
\* log lies directly in the log directory.
C24_NoPathSeparator ==
  Expanded =>
    \A i \in 1..Len(all_tests_to_run) :
      LET test_name == all_tests_to_run[i].test_name
          path == LogFilePath(test_name, timestamp)
      IN  /\ ~HasSeparator(test_name)
          /\ SubSeq(path, 1, Len(log_dir) + 1) = log_dir \o "/"
          /\ ~HasSeparator(BelowLogDir(path))
          /\ BelowLogDir(path) = test_name \o "_" \o join(timestamp) \o ".log"

\* The whole extreme catalog expanded with every strategy and every protocol.
C24_Witness ==
  /\ Expanded
  /\ runner = "extreme"
  /\ call.categories = NoneArg /\ call.strategies = NoneArg /\ call.protocols = NoneArg
  /\ Len(all_tests_to_run) = MatrixSize(runner, call)
  /\ Len(all_tests_to_run) > 720
--------------------------------------------------------------------------
(* Two runs: claim C9 (SpecRuns).                                          *)

\* The seeds the run in progress has assigned.
SeedsOfRun == {matrix[i].seed : i \in 1..Len(matrix)}

\* C9: when the run in progress and the earlier run were started in different seconds
\* (their timestamps differ), no seed of the one is a seed of the other.
C9_SeedsDisjoint ==
  (archive # NoneArg /\ Expanded /\ archive[1].timestamp # timestamp) =>
    SeedsOfRun \cap archive[1].seeds = {}

\* The log file names of the earlier run and of the run in progress.
LogNamesOfArchive == {LogFilePath(n, archive[1].timestamp) : n \in archive[1].test_names}
LogNamesOfRun ==
  {LogFilePath(all_tests_to_run[i].test_name, timestamp) : i \in 1..Len(all_tests_to_run)}

\* C11: no log file name of the run in progress is a log file name of the earlier run
\* that wrote into the same log directory.
C11_LogNamesDisjoint ==
  (archive # NoneArg /\ Expanded) => LogNamesOfRun \cap LogNamesOfArchive = {}

--------------------------------------------------------------------------
(* One worker and many: claim C17 (SpecPair).                              *)

\* The run in progress has finished, and each of its invocations met the outcome of the
\* external command that the same invocation of the earlier run met.
SameOutcomes ==
  /\ archive # NoneArg
  /\ pc = "done"
  /\ Len(archive[1].task) = submitted
  /\ \A i \in 1..submitted : task[i].env = archive[1].task[i].env

\* C17: for the same selection and the same outcomes of the external commands, the run
\* with one worker process and the run with cpu_count worker processes have the same
\* successful invocations, the same failed invocations and the same two counters.
C17_SameResults ==
  SameOutcomes =>
    /\ {i \in 1..submitted : task[i].result = "True"}
         = {i \in 1..submitted : archive[1].task[i].result = "True"}
    /\ {i \in 1..submitted : task[i].result # "True"}
         = {i \in 1..submitted : archive[1].task[i].result # "True"}
    /\ successful_runs = archive[1].successful_runs
    /\ failed_runs = archive[1].failed_runs

\* Two finished runs of two invocations with the same outcomes, one invocation a success
\* and one a failure, the earlier run with one worker process and this one with more.
C17_Witness ==
  /\ SameOutcomes
  /\ archive[1].call.max_workers = Some(1)
  /\ worker > 1
  /\ \E i, j \in 1..submitted : task[i].result = "True" /\ task[j].result = "False"


--------------------------------------------------------------------------
(* The expansion is a function of the selection and the timestamp: claim   *)
(* C26 (SpecPair).                                                         *)

\* The run in progress has the selection and the timestamp of the earlier run.
SameSelectionAndInstant ==
  /\ archive # NoneArg
  /\ Expanded
  /\ timestamp = archive[1].timestamp
  /\ call.categories = archive[1].call.categories
  /\ call.strategies = archive[1].call.strategies
  /\ call.protocols = archive[1].call.protocols

\* C26: two executions of run_all_tests with the same selection and the same timestamp
\* build the same list of tests, entry by entry: the same commands (with the same seeds)
\* and the same run identifiers in the same order, whatever the numbers of worker
\* processes are and however the external processes of either run end.
C26_SameExpansion ==
  SameSelectionAndInstant =>
    /\ all_tests_to_run = archive[1].all_tests_to_run
    /\ SeedsOfRun = archive[1].seeds
    /\ \A i \in 1..Len(matrix) :
         all_tests_to_run[i].test_name
           = TestName(matrix[i].category, [name |-> matrix[i].scenario], matrix[i].strategy,
                      matrix[i].protocol, matrix[i].seed)

\* A finished second run of two invocations with more worker processes than the first,
\* in which an invocation ended otherwise than it did in the first run.
C26_Witness ==
  /\ SameSelectionAndInstant
  /\ pc = "done"
  /\ Len(all_tests_to_run) = 2
  /\ worker > 1
  /\ archive[1].call.max_workers = Some(1)
  /\ \E i \in 1..submitted : task[i].result # archive[1].task[i].result
--------------------------------------------------------------------------
(* The pool: claims C2 to C7 (Spec).                                       *)

Tasks == 1..submitted

LogOf(i) == LogFilePath(all_tests_to_run[i].test_name, timestamp)

\* C2: when run_all_tests finishes, the two counters add up to the number of tests
\* submitted, whatever the outcomes were.
C2_CountersAddUp ==
  pc = "done" =>
    /\ submitted = Len(all_tests_to_run)
    /\ successful_runs + failed_runs = Len(all_tests_to_run)

\* A finished run in which an exception left run_single_test for one invocation and a
\* worker process died on another.
C2_Witness ==
  /\ pc = "done"
  /\ \E i, j \in Tasks : task[i].result = "raised" /\ task[j].crashed

\* C3: at the end of a run every submitted invocation has been folded and has its one
\* log file, so the numbers of invocations, of folded results and of log files agree.
C3_OneLogPerInvocation ==
  pc = "done" =>
    /\ Cardinality(yielded) = Len(all_tests_to_run)
    /\ Cardinality(DOMAIN files) = Len(all_tests_to_run)
    /\ \A i \in Tasks : LogOf(i) \in DOMAIN files

\* The invocation met a fault of its worker: an exception left run_single_test, or the
\* worker process died while executing it.
FaultAt(i) == task[i].result = "raised" \/ task[i].crashed

\* C4: when one invocation of the run meets a fault of its worker, every other
\* invocation still has its command run to the end and its own outcome folded, and the
\* fault is counted as one failure.
C4_FaultIsolated ==
  (pc = "done" /\ Cardinality({i \in Tasks : FaultAt(i)}) = 1) =>
    /\ \A i \in Tasks :
         ~FaultAt(i) => /\ task[i].env # NoneArg
                        /\ task[i].result \in {"True", "False"}
    /\ failed_runs = 1 + Cardinality({i \in Tasks : task[i].result = "False"})

\* C5: when the external process cannot be created, run_single_test returns False and
\* the log of the invocation ends with the text of the fault.
C5_LaunchFailureHandled ==
  \A i \in Tasks :
    (task[i].env # NoneArg /\ task[i].env[1].spawn = "fails") =>
      /\ task[i].result = "False"
      /\ LogOf(i) \in DOMAIN files
      /\ files[LogOf(i)] # << >>
      /\ files[LogOf(i)][Len(files[LogOf(i)])]
           = subprocess_run(all_tests_to_run[i].command, task[i].env[1]).exception

\* C6 as claimed: a command that names no executable gives a failure with no exit code.
C6_MissingExeNoExitCode ==
  \A i \in Tasks :
    (task[i].env # NoneArg /\ task[i].env[1].exe = "missing") =>
      /\ task[i].result = "False"
      /\ task[i].returncode = NoneArg

\* C6 as amended: the command is run by the shell, so a command that names no executable
\* is a process that ran and exited with status 127.  The invocation is never a success
\* and has the exit code 127; when its log is written without a fault the result is
\* False and the log is the full log, with "Return Code: 127", the shell's message in
\* the STDERR section and no PYTHON EXCEPTION section.  Siblings are not aborted: while
\* the pool is not broken every finished invocation ran its own command to the end.
C6_MissingExeIsExit127 ==
  \A i \in Tasks :
    (task[i].env # NoneArg /\ task[i].env[1].exe = "missing") =>
      /\ task[i].result # "True"
      /\ task[i].returncode = Some(ShellNotFound)
      /\ task[i].env[1].write = "ok" =>
           LET path == LogOf(i)
           IN  /\ task[i].result = "False"
               /\ path \in DOMAIN files
               /\ Len(files[path]) = 14
               /\ files[path][DetailLines] = "Return Code: 127"
               /\ files[path][14] # ""
               /\ \A k \in 1..14 : files[path][k] # "--- PYTHON EXCEPTION ---"
      /\ ~broken =>
           \A j \in Tasks : task[j].state = "finished" => task[j].env # NoneArg

\* An invocation with a missing executable has finished while a sibling is executing.
C6_Witness ==
  \E i, j \in Tasks :
    /\ i # j
    /\ task[i].env # NoneArg
    /\ task[i].env[1].exe = "missing"
    /\ task[i].env[1].write = "ok"
    /\ task[j].state = "executing"

\* C7: for an invocation whose process ran and exited, the result is success exactly
\* when the exit code is 0, and for an exit code c other than 0 the result is False and
\* the log has the line "Return Code: c".
C7_SuccessIffExitZero ==
  \A i \in Tasks :
    (task[i].env # NoneArg /\ task[i].returncode # NoneArg) =>
      /\ task[i].result = "True" <=> task[i].returncode[1] = 0
      /\ task[i].returncode[1] # 0 =>
           /\ task[i].result = "False"
           /\ LogOf(i) \in DOMAIN files
           /\ \E k \in 1..Len(files[LogOf(i)]) :
                files[LogOf(i)][k] = "Return Code: " \o str(task[i].returncode[1])

--------------------------------------------------------------------------
(* The selection and the script: claims C12, C13, C16, C18, C19 (Spec).    *)

\* The names the call lists as categories that the catalog of the runner does not have.
UnknownSelected ==
  {categories_to_run(runner, call)[k] : k \in 1..Len(categories_to_run(runner, call))}
    \ {CategoryNames(define_test_scenarios(runner))[k] :
         k \in 1..Len(define_test_scenarios(runner))}

\* C12: when the selection names a category that the catalog does not have, no test is
\* built for it, every test of the other selected categories is built, and when
\* run_all_tests finishes every test built has been submitted to the pool and its result
\* folded into the counters.
C12_UnknownCategorySkipped ==
  (Expanded /\ UnknownSelected # {}) =>
    /\ \A i \in 1..Len(matrix) : matrix[i].category \notin UnknownSelected
    /\ {CellOf(i) : i \in 1..Len(matrix)} = SelectedCells
    /\ Len(all_tests_to_run) = Len(matrix)
    /\ pc = "done" => /\ submitted = Len(all_tests_to_run)
                      /\ yielded = 1..submitted
                      /\ successful_runs + failed_runs = submitted

\* A finished run whose selection named an unknown category before a known one, and
\* whose tests all ran their commands to the end.
C12_Witness ==
  /\ pc = "done"
  /\ UnknownSelected # {}
  /\ Len(matrix) >= 1
  /\ \A i \in 1..submitted : task[i].env # NoneArg

\* C13: a call whose selection gives no test at all is a fatal failure: it never has
\* its pool created (pc "submit"), never waits for results (pc "collect") and never
\* reaches the normal summary (pc "done").
C13_EmptySelectionIsFatal ==
  all_tests_to_run = << >> => pc \notin {"submit", "collect", "done"}

\* C16: at every moment of a run the number of invocations whose external process is
\* executing is at most max_workers (the number of processing units when the argument
\* is absent), and an invocation that is still queued has not started its process.
C16_AtMostMaxWorkers ==
  Expanded =>
    /\ worker = (IF call.max_workers = NoneArg THEN MaxWorkers ELSE call.max_workers[1])
    /\ Cardinality({i \in 1..submitted : task[i].state = "executing"}) <= worker
    /\ \A i \in 1..submitted : task[i].state = "queued" => ~task[i].started

\* Every worker process is busy and a submitted invocation waits.
C16_Witness ==
  /\ Expanded
  /\ Cardinality({i \in 1..submitted : task[i].state = "executing"}) = worker
  /\ \E i \in 1..submitted : task[i].state = "queued"

\* C18: in list mode (--list-scenarios) nothing is executed: no test is built, no pool is
\* created, nothing is submitted, no external process is started and no log is written.
C18_ListOnly ==
  pc = "listed" =>
    /\ all_tests_to_run = << >>
    /\ matrix = << >>
    /\ worker = 0
    /\ submitted = 0
    /\ task = << >>
    /\ DOMAIN files = {}

\* The script has printed the catalog of the runner it constructed.
C18_Witness == pc = "listed" /\ timestamp # << >>

\* C19: when the process of the script ends after execution completed (every test built
\* was submitted; in list mode there is none), every result has been folded and the exit
\* status is 0, whatever the two counters are.
C19_ExitStatusZero ==
  (pc = "exited" /\ submitted = Len(all_tests_to_run)) =>
    /\ yielded = 1..submitted
    /\ exit_status = Some(0)

\* The script has ended after a run in which every invocation failed.
C19_Witness ==
  /\ pc = "exited"
  /\ exit_status = Some(0)
  /\ submitted >= 1
  /\ submitted = Len(all_tests_to_run)
  /\ failed_runs = submitted

--------------------------------------------------------------------------
(* Termination and completion order: claims C21 to C23.                    *)

\* run_all_tests has returned with every test submitted and every result folded once.
AllFolded ==
  /\ pc = "done"
  /\ submitted = Len(all_tests_to_run)
  /\ yielded = 1..submitted
  /\ successful_runs + failed_runs = submitted

\* Under the scheduling of SpecLive a run_all_tests that was entered is left, by its
\* return or by an exception.
RunAllTestsIsLeft == (pc = "submit") ~> (pc \in {"done", "raised", "exited"})

\* C21 (SpecLive): when every external process that is started exits, a run_all_tests
\* that was entered returns, and at its return every test has been submitted and every
\* result has been folded into the counters once.
C21_EventuallyAllFolded == (pc = "submit") ~> AllFolded

\* C22 (Spec): nothing but the exit of its own external process ends an invocation that
\* was started: a started invocation whose worker process did not itself die is finished
\* only when its process has exited and run_single_test has run to its end, and the
\* completion summary is reached only when that is so for every started invocation.
C22_OnlyItsExitEndsAnInvocation ==
  /\ \A i \in Tasks :
       (task[i].state = "finished" /\ task[i].started /\ ~task[i].crashed) =>
         task[i].env # NoneArg
  /\ pc = "done" =>
       \A i \in Tasks : (task[i].started /\ ~task[i].crashed) => task[i].env # NoneArg

\* C23 (Spec): results are folded in the order of completion.  Only a finished future is
\* folded; a finished future that is not yet folded can be folded at once, whatever the
\* futures submitted before it are doing; and the two counters are at every moment the
\* numbers of successes and of failures among the futures folded so far, so that at the
\* summary they are determined by the outcomes alone, not by the order of completion.
C23_FoldInCompletionOrder ==
  /\ \A i \in yielded : task[i].state = "finished"
  /\ \A i \in Tasks :
       (pc = "collect" /\ task[i].state = "finished" /\ i \notin yielded) => ENABLED Fold(i)
  /\ successful_runs = Cardinality({i \in yielded : task[i].result = "True"})
  /\ failed_runs = Cardinality({i \in yielded : task[i].result # "True"})
  /\ pc = "done" =>
       /\ successful_runs = Cardinality({i \in Tasks : task[i].result = "True"})
       /\ failed_runs = Cardinality({i \in Tasks : task[i].result # "True"})

\* The result of the invocation submitted second has been folded as a success while the
\* invocation submitted first is still running.
C23_Witness ==
  \E i, j \in Tasks :
    /\ i < j
    /\ task[i].state = "executing"
    /\ j \in yielded
    /\ task[j].result = "True"
    /\ successful_runs = 1
--------------------------------------------------------------------------
(* The log artifact: claim C25 (SpecLog).                                  *)

\* The line begins with the text prefix.
StartsWith(line, prefix) ==
  Len(line) >= Len(prefix) /\ SubSeq(line, 1, Len(prefix)) = prefix

\* The section headings of a log, in the order in which they stand in it: its lines
\* that begin with "--- ".
Headings(lines) == SelectSeq(lines, LAMBDA line : StartsWith(line, "--- "))

\* The fields of the details block, in the order of the source.
DetailFields ==
  <<"Test Name: ", "Description: ", "Timestamp: ", "Execution Time: ", "Return Code: ">>

\* Lines 2 to 6 of the log are the five fields of the details block.
HasDetailFields(lines) ==
  /\ Len(lines) >= DetailLines
  /\ \A k \in 1..Len(DetailFields) : StartsWith(lines[k + 1], DetailFields[k])

\* The logs in the log directory.
Logs == {files[path] : path \in DOMAIN files}

--------------------------------------------------------------------------
(* The shared result file: claim C27 (SpecPair).                           *)

\* Where the flag --csvFile begins in the command of the i-th test built: after the
\* entry point and the flags --strategy, --protocol and --seed.
CsvFlagAt(i) ==
  Len("./ns3 run 'mlo_simulator --strategy=") + Len(matrix[i].strategy)
    + Len(" --protocol=") + Len(matrix[i].protocol)
    + Len(" --seed=") + Len(str(matrix[i].seed)) + 2

\* The command of the i-th test built has the flag --csvFile with the value path.
TargetsFile(i, path) ==
  LET command == all_tests_to_run[i].command
      at == CsvFlagAt(i)
  IN  SubSeq(command, at, at + Len("--csvFile=") + Len(path)) = "--csvFile=" \o path \o " "

\* C27: the command of every invocation names the one result file, and an external
\* process runs for each invocation that a worker process executes: with one worker
\* process at most one of them runs at a time, and with more the pool starts the next
\* invocation while another is running, without any lock on the file.
C27_SharedResultFile ==
  Expanded =>
    /\ \A i \in 1..Len(all_tests_to_run) : TargetsFile(i, output_csv_path)
    /\ worker = 1 => Cardinality(Executing) <= 1
    /\ \A i \in Tasks :
         (/\ PoolRunning
          /\ task[i].state = "queued"
          /\ \A j \in 1..(i - 1) : task[j].state # "queued"
          /\ Cardinality(Executing) < worker) => ENABLED WorkerStart(i)

\* Two external processes whose commands name the one result file are running at the
\* same time, in a pool of two worker processes or more.
C27_Witness ==
  /\ worker >= 2
  /\ \E i, j \in Tasks :
       /\ i # j
       /\ task[i].state = "executing" /\ task[j].state = "executing"
       /\ TargetsFile(i, output_csv_path) /\ TargetsFile(j, output_csv_path)

--------------------------------------------------------------------------
(* The two counters: claim C28 (Spec).                                     *)

\* A step that changes successful_runs or failed_runs.
CountersChange == successful_runs' # successful_runs \/ failed_runs' # failed_runs

\* C28: in every step of a run neither counter decreases; a step that changes a counter
\* is a step of the fold loop of the main process (one more future is handed out by
\* as_completed, and no invocation and no log file changes, so it is not the step of a
\* worker); a step of the fold loop adds exactly one to exactly one of the two; and the
\* sum of the two never exceeds the number of invocations submitted.
C28_CountersOnlyByFold ==
  [][/\ successful_runs' >= successful_runs
     /\ failed_runs' >= failed_runs
     /\ CountersChange =>
          /\ pc = "collect" /\ pc' = "collect"
          /\ task' = task /\ files' = files /\ submitted' = submitted
          /\ Cardinality(yielded' \ yielded) = 1
     /\ yielded' # yielded =>
          successful_runs' + failed_runs' = successful_runs + failed_runs + 1
     /\ successful_runs' + failed_runs' <= submitted']_vars

\* The fold loop has counted one success and one failure.
C28_Witness == pc = "collect" /\ successful_runs = 1 /\ failed_runs = 1
--------------------------------------------------------------------------
(* Two calls on one runner object: claim C29 (SpecAgain).                  *)

\* The call in progress is the second call on the runner object and has the selection
\* of the first.
SecondCallSameSelection ==
  /\ archive # NoneArg
  /\ Expanded
  /\ call.categories = archive[1].call.categories
  /\ call.strategies = archive[1].call.strategies
  /\ call.protocols = archive[1].call.protocols

\* C29: the timestamp of the runner object is the one its construction gave it, also in
\* its second call of run_all_tests; the second call with the selection of the first
\* builds the same seeds and the same run identifiers in the same order and so the same
\* log file paths, and when it has returned the log directory holds the files it held
\* after the first call and no other: the second call wrote over them.
C29_SecondCallSameLogs ==
  /\ (archive # NoneArg /\ timestamp # << >>) => timestamp = archive[1].timestamp
  /\ SecondCallSameSelection =>
       /\ SeedsOfRun = archive[1].seeds
       /\ all_tests_to_run = archive[1].all_tests_to_run
       /\ [i \in 1..Len(all_tests_to_run) |-> LogOf(i)]
            = [i \in 1..Len(all_tests_to_run) |->
                 LogFilePath(archive[1].all_tests_to_run[i].test_name, archive[1].timestamp)]
       /\ \A i \in Tasks : task[i].state = "finished" => LogOf(i) \in DOMAIN archive[1].files
       /\ pc = "done" => DOMAIN files = DOMAIN archive[1].files

\* The second call has returned and has written over a log of the first: the file of an
\* invocation that exited with status 0 in the first call now holds "Return Code: 137".
C29_Witness ==
  /\ SecondCallSameSelection
  /\ pc = "done"
  /\ Len(all_tests_to_run) = 2
  /\ \E i \in Tasks :
       /\ archive[1].files[LogOf(i)][DetailLines] = "Return Code: 0"
       /\ files[LogOf(i)][DetailLines] = "Return Code: 137"
--------------------------------------------------------------------------
(* The empty selection: claim C30 (SpecMatrix).                            *)

\* The optional list x with the empty list replaced by None.
AbsentIfEmpty(x) == IF x = Some(<< >>) THEN NoneArg ELSE x

\* The call c with every empty list replaced by None.
WithoutEmptyLists(c) ==
  [c EXCEPT !.categories = AbsentIfEmpty(c.categories),
            !.strategies = AbsentIfEmpty(c.strategies),
            !.protocols = AbsentIfEmpty(c.protocols)]

\* The call in progress passes an empty list.
PassesEmptyList ==
  Some(<< >>) \in {call.categories, call.strategies, call.protocols}

\* C30: a call that passes [] for categories, strategies or protocols builds the list
\* that the same call with None in its place builds: for categories=[] every category of
\* the catalog is expanded, for strategies=[] the four strategies, for protocols=[] the
\* three protocols.
C30_EmptyIsAbsent ==
  (Expanded /\ PassesEmptyList) =>
    /\ all_tests_to_run
         = Expansion(runner, timestamp, WithoutEmptyLists(call)).all_tests_to_run
    /\ call.categories = Some(<< >>) =>
         {matrix[i].category : i \in 1..Len(matrix)}
           = Range(CategoryNames(define_test_scenarios(runner)))
    /\ (call.strategies = Some(<< >>) /\ matrix # << >>) =>
         {matrix[i].strategy : i \in 1..Len(matrix)} = Range(DefaultStrategies)
    /\ (call.protocols = Some(<< >>) /\ matrix # << >>) =>
         {matrix[i].protocol : i \in 1..Len(matrix)} = Range(DefaultProtocols)

\* categories=[] with one strategy and one protocol on the basic catalog: its 60
\* scenarios, of all 8 categories, are expanded.
C30_Witness ==
  /\ Expanded
  /\ runner = "basic"
  /\ call.categories = Some(<< >>)
  /\ Len(call.strategies[1]) = 1 /\ Len(call.protocols[1]) = 1
  /\ Len(all_tests_to_run) = 60
  /\ Cardinality({matrix[i].category : i \in 1..Len(matrix)}) = 8
==========================================================================
